---- MODULE Spec2Model ----
(***************************************************************************)
(* A model of the SOLID teaching scripts of src/patterns: the product      *)
(* filters and specifications of OCP.py, the discount strategies of        *)
(* OCP_2.py, the order interfaces of ISP.py, and the main drivers.         *)
(*                                                                         *)
(* Enum members are modelled by their names (Color.RED is "RED"): members  *)
(* of different Enum classes never compare equal in Python, and no two     *)
(* enums here share a member name.  Objects are records of their fields.   *)
(***************************************************************************)
EXTENDS Integers, Sequences, FiniteSets, TLC

VARIABLES
    \* OCP.py
    products,        \* the list handed to a filter
    specification,   \* the Specification object under construction / in use
    filtered,        \* the list returned by the last filter call
    item,            \* the Product last passed to is_satisfied
    satisfied,       \* what that is_satisfied call returned
    operand,         \* the `other' argument of the last & or | call
    ocp_call,        \* the last OCP operation performed
    bad_args,        \* the color, size, material given to a ProductFilter_2 method
    \* ISP.py
    order,           \* the Order object: its products and its is_paid flag
    isp_call,        \* the last ISP method called
    isp_exc,         \* the exception that call raised, or NoException
    isp_ret,         \* the value that call returned
    isp_out,         \* the lines that call printed
    isp_calls,       \* the calls that call made in turn, in order
    \* OCP_2.py
    customers,       \* the list of CustomerWithDiscount objects
    disc_call,       \* the last OCP_2 operation performed
    disc_arg,        \* the position in customers that operation was called on
    disc_ret,        \* the discount the last get_discount call returned
    disc_out,        \* the lines the last process_discounts call printed
    bad_customer,    \* the Customer given to the last DiscountCalculatorBad call
    \* DIP.py
    dip_service,     \* the class of the service injected into the OrderProcessor
    dip_order,       \* the Order object
    dip_call,        \* the last DIP operation performed
    dip_out,         \* the lines that operation printed
    dip_calls,       \* the calls that operation made on notification services
    \* SRP.py
    srp_heap,        \* the list objects created by `[]', by identity
    srp_objects,     \* the ProductRepository / ProductManagerBad instances
    srp_added,       \* per instance, the products passed to its add_product
    srp_call,        \* the last SRP operation performed
    srp_arg,         \* the instance that operation was called on
    srp_ret,         \* the list that operation returned, if it was get_products
    srp_text,        \* the string that operation returned, if it was a display
    srp_out,         \* the lines that operation printed
    \* the main() drivers
    script,          \* the script whose main() runs
    pc,              \* the line of main() about to be executed, "done" or "crashed"
    env,             \* main()'s local variables and the objects they name
    out              \* everything printed so far, one entry per print call

ocpVars ==
    <<products, specification, filtered, item, satisfied, operand, ocp_call, bad_args>>

ispVars == <<order, isp_call, isp_exc, isp_ret, isp_out, isp_calls>>

discVars == <<customers, disc_call, disc_arg, disc_ret, disc_out, bad_customer>>

dipVars == <<dip_service, dip_order, dip_call, dip_out, dip_calls>>

srpVars ==
    <<srp_heap, srp_objects, srp_added, srp_call, srp_arg, srp_ret, srp_text, srp_out>>

mainVars == <<script, pc, env, out>>

vars == <<ocpVars, ispVars, discVars, dipVars, srpVars, mainVars>>

\* The scripts share nothing: each one's operations leave the others' state alone.
notOcp == <<ispVars, discVars, dipVars, srpVars, mainVars>>
notIsp == <<ocpVars, discVars, dipVars, srpVars, mainVars>>
notDisc == <<ocpVars, ispVars, dipVars, srpVars, mainVars>>
notDip == <<ocpVars, ispVars, discVars, srpVars, mainVars>>
notSrp == <<ocpVars, ispVars, discVars, dipVars, mainVars>>
notMain == <<ocpVars, ispVars, discVars, dipVars, srpVars>>

----------------------------------------------------------------------------
(* Bounds of the model *)

MaxLen == 3      \* longest product list handed to a filter
MaxArgs == 2     \* most arguments given to AndSpecification / OrSpecification
MaxDepth == 2    \* deepest nesting of composite specifications
MaxCustomers == 2   \* longest customer list handed to process_discounts
MaxInstances == 3   \* most ProductRepository / ProductManagerBad instances created
MaxAdds == 4        \* most add_product calls made on SRP.py instances altogether

----------------------------------------------------------------------------
(* OCP.py: enumerations and Product *)

Color == {"RED", "GREEN", "BLUE"}
Size == {"SMALL", "MEDIUM", "LARGE"}
Material == {"WOOD", "METAL", "PLASTIC"}

Product(name, color, size, material) ==
    [name |-> name, color |-> color, size |-> size, material |-> material]

\* The list main() builds.
DemoProducts ==
    << Product("Apple", "RED", "SMALL", "PLASTIC"),
       Product("Tree", "GREEN", "LARGE", "WOOD"),
       Product("House", "BLUE", "LARGE", "METAL"),
       Product("Chair", "RED", "MEDIUM", "WOOD") >>

\* Products the filters and specifications are exercised on: the demo's four
\* and two more, so that "blue and small" and "red and large" both occur.
Catalog ==
    { DemoProducts[i] : i \in DOMAIN DemoProducts }
        \cup { Product("Pen", "BLUE", "SMALL", "PLASTIC"),
               Product("Truck", "RED", "LARGE", "METAL") }

\* Every combination of attributes a Product can carry (one name suffices:
\* no specification reads the name).
AllProducts ==
    { Product("P", c, s, m) : c \in Color, s \in Size, m \in Material }

----------------------------------------------------------------------------
(* OCP.py: the specifications *)

ColorSpecification(color) == [kind |-> "Color", color |-> color]
SizeSpecification(size) == [kind |-> "Size", size |-> size]
MaterialSpecification(material) == [kind |-> "Material", material |-> material]
AndSpecification(args) == [kind |-> "And", args |-> args]
OrSpecification(args) == [kind |-> "Or", args |-> args]
NotSpecification(spec) == [kind |-> "Not", spec |-> spec]
NoSpecification == [kind |-> "None"]

\* Python's all(): true unless some element is false (true of the empty list).
RECURSIVE all(_)
all(results) ==
    IF results = <<>> THEN TRUE
    ELSE IF ~Head(results) THEN FALSE
    ELSE all(Tail(results))

\* Python's any(): false unless some element is true (false of the empty list).
RECURSIVE any(_)
any(results) ==
    IF results = <<>> THEN FALSE
    ELSE IF Head(results) THEN TRUE
    ELSE any(Tail(results))

Color_is_satisfied(self, p) == p.color = self.color
Size_is_satisfied(self, p) == p.size = self.size
Material_is_satisfied(self, p) == p.material = self.material

RECURSIVE is_satisfied(_, _)

\* A slip in AndSpecification.is_satisfied: any() where all() is meant.
And_is_satisfied_any(self, p) ==
    any([i \in DOMAIN self.args |-> is_satisfied(self.args[i], p)])

\* AndSpecification.is_satisfied: collect every argument's answer, then all().
And_is_satisfied(self, p) ==
    all([i \in DOMAIN self.args |-> is_satisfied(self.args[i], p)])

\* A slip in OrSpecification.is_satisfied: only the first argument is asked.
Or_is_satisfied_first(self, p) ==
    self.args # <<>> /\ is_satisfied(self.args[1], p)

\* OrSpecification.is_satisfied: any() over the arguments' answers.
Or_is_satisfied(self, p) ==
    any([i \in DOMAIN self.args |-> is_satisfied(self.args[i], p)])

\* A slip in NotSpecification.is_satisfied: the `not' is forgotten.
Not_is_satisfied_plain(self, p) == is_satisfied(self.spec, p)

\* NotSpecification.is_satisfied
Not_is_satisfied(self, p) == ~is_satisfied(self.spec, p)

\* Dynamic dispatch of spec.is_satisfied(item) on the object's class.
is_satisfied(spec, p) ==
    CASE spec.kind = "Color" -> Color_is_satisfied(spec, p)
      [] spec.kind = "Size" -> Size_is_satisfied(spec, p)
      [] spec.kind = "Material" -> Material_is_satisfied(spec, p)
      [] spec.kind = "And" -> And_is_satisfied(spec, p)
      [] spec.kind = "Or" -> Or_is_satisfied(spec, p)
      [] spec.kind = "Not" -> Not_is_satisfied(spec, p)

\* A slip in Specification.__or__: copied from __and__ without renaming.
Specification_or_copied(self, other) == AndSpecification(<<self, other>>)

\* Specification.__and__, __or__, __invert__
Specification_and(self, other) == AndSpecification(<<self, other>>)
Specification_or(self, other) == OrSpecification(<<self, other>>)
Specification_invert(self) == NotSpecification(self)

\* A slip in ProductFilter.filter: matches are collected newest first.
RECURSIVE ProductFilter_filter_reversed(_, _)
ProductFilter_filter_reversed(ps, spec) ==
    IF ps = <<>> THEN <<>>
    ELSE ProductFilter_filter_reversed(Tail(ps), spec)
            \o (IF is_satisfied(spec, Head(ps)) THEN <<Head(ps)>> ELSE <<>>)

\* ProductFilter.filter: [p for p in products if specification.is_satisfied(p)]
\* walks the list front to back and appends each product that satisfies.
RECURSIVE ProductFilter_filter(_, _)
ProductFilter_filter(ps, spec) ==
    IF ps = <<>> THEN <<>>
    ELSE (IF is_satisfied(spec, Head(ps)) THEN <<Head(ps)>> ELSE <<>>)
            \o ProductFilter_filter(Tail(ps), spec)

\* ProductFilter_2.filter_by_color: [p for p in products if p.color == color]
RECURSIVE ProductFilter_2_filter_by_color(_, _)
ProductFilter_2_filter_by_color(ps, color) ==
    IF ps = <<>> THEN <<>>
    ELSE (IF Head(ps).color = color THEN <<Head(ps)>> ELSE <<>>)
            \o ProductFilter_2_filter_by_color(Tail(ps), color)

\* ProductFilter_2.filter_by_size: [p for p in products if p.size == size]
RECURSIVE ProductFilter_2_filter_by_size(_, _)
ProductFilter_2_filter_by_size(ps, size) ==
    IF ps = <<>> THEN <<>>
    ELSE (IF Head(ps).size = size THEN <<Head(ps)>> ELSE <<>>)
            \o ProductFilter_2_filter_by_size(Tail(ps), size)

\* A slip in filter_by_color_and_size: either attribute is enough.
RECURSIVE ProductFilter_2_filter_by_color_and_size_either(_, _, _)
ProductFilter_2_filter_by_color_and_size_either(ps, color, size) ==
    IF ps = <<>> THEN <<>>
    ELSE (IF Head(ps).color = color \/ Head(ps).size = size
          THEN <<Head(ps)>> ELSE <<>>)
            \o ProductFilter_2_filter_by_color_and_size_either(Tail(ps), color, size)

\* ProductFilter_2.filter_by_color_and_size
RECURSIVE ProductFilter_2_filter_by_color_and_size(_, _, _)
ProductFilter_2_filter_by_color_and_size(ps, color, size) ==
    IF ps = <<>> THEN <<>>
    ELSE (IF Head(ps).color = color /\ Head(ps).size = size
          THEN <<Head(ps)>> ELSE <<>>)
            \o ProductFilter_2_filter_by_color_and_size(Tail(ps), color, size)

\* ProductFilter_2.filter_by_material
RECURSIVE ProductFilter_2_filter_by_material(_, _)
ProductFilter_2_filter_by_material(ps, material) ==
    IF ps = <<>> THEN <<>>
    ELSE (IF Head(ps).material = material THEN <<Head(ps)>> ELSE <<>>)
            \o ProductFilter_2_filter_by_material(Tail(ps), material)

RECURSIVE Depth(_)
RECURSIVE MaxDepthOf(_)
MaxDepthOf(specs) ==
    IF specs = <<>> THEN 0
    ELSE LET d == Depth(Head(specs))
             r == MaxDepthOf(Tail(specs))
         IN IF d > r THEN d ELSE r
Depth(spec) ==
    CASE spec.kind \in {"And", "Or"} -> 1 + MaxDepthOf(spec.args)
      [] spec.kind = "Not" -> 1 + Depth(spec.spec)
      [] OTHER -> 0

----------------------------------------------------------------------------
(* OCP.py: building and evaluating specifications *)

NoProduct == Product("", "NONE", "NONE", "NONE")

\* No ProductFilter_2 method called: no color, size or material given.
NoArgs == [color |-> "NONE", size |-> "NONE", material |-> "NONE"]

\* The simple specifications: every Color, Size and Material.
AtomSpecs ==
    { ColorSpecification(c) : c \in Color }
        \cup { SizeSpecification(s) : s \in Size }
        \cup { MaterialSpecification(m) : m \in Material }

\* The simple specifications main() constructs or names (OCP.py 238-268).
DemoAtoms ==
    { ColorSpecification("RED"), ColorSpecification("BLUE"),
      SizeSpecification("LARGE"), SizeSpecification("SMALL"),
      MaterialSpecification("WOOD") }

\* Right-hand operands offered to & and |: two simple specifications and the
\* composite (BLUE & SMALL) of main()'s commented complex_condition.
Operands ==
    { SizeSpecification("LARGE"), ColorSpecification("BLUE"),
      Specification_and(ColorSpecification("BLUE"), SizeSpecification("SMALL")) }

\* The specifications main() passes to AndSpecification (OCP.py 253), and the
\* wood test beside them.
ArgAtoms ==
    { ColorSpecification("RED"), SizeSpecification("LARGE"),
      MaterialSpecification("WOOD") }

\* Argument tuples for AndSpecification(*args) / OrSpecification(*args).
ArgLists ==
    UNION { [1..n -> ArgAtoms] : n \in 0..MaxArgs }

\* Install a newly built specification; the record of the last is_satisfied
\* call is cleared.
Built(spec, other, call) ==
    /\ Depth(spec) <= MaxDepth
    /\ specification' = spec
    /\ operand' = other
    /\ ocp_call' = call
    /\ item' = NoProduct
    /\ satisfied' = FALSE
    /\ UNCHANGED <<products, filtered, bad_args>>
    /\ UNCHANGED notOcp

NewColorSpecification ==
    \E c \in Color : Built(ColorSpecification(c), NoSpecification, "ColorSpecification")

NewSizeSpecification ==
    \E s \in Size : Built(SizeSpecification(s), NoSpecification, "SizeSpecification")

NewMaterialSpecification ==
    \E m \in Material :
        Built(MaterialSpecification(m), NoSpecification, "MaterialSpecification")

NewAndSpecification ==
    \E args \in ArgLists : Built(AndSpecification(args), NoSpecification, "AndSpecification")

NewOrSpecification ==
    \E args \in ArgLists : Built(OrSpecification(args), NoSpecification, "OrSpecification")

\* specification & other
And ==
    /\ specification # NoSpecification
    /\ \E other \in Operands :
          Built(Specification_and(specification, other), other, "__and__")

\* specification | other
Or ==
    /\ specification # NoSpecification
    /\ \E other \in Operands :
          Built(Specification_or(specification, other), other, "__or__")

\* ~specification
Invert ==
    /\ specification # NoSpecification
    /\ Built(Specification_invert(specification), NoSpecification, "__invert__")

\* specification.is_satisfied(p)
IsSatisfied ==
    /\ specification # NoSpecification
    /\ \E p \in Catalog :
          /\ item' = p
          /\ satisfied' = is_satisfied(specification, p)
    /\ ocp_call' = "is_satisfied"
    /\ UNCHANGED <<products, specification, filtered, operand, bad_args>>
    /\ UNCHANGED notOcp

SpecificationNext ==
    \/ NewColorSpecification
    \/ NewSizeSpecification
    \/ NewMaterialSpecification
    \/ NewAndSpecification
    \/ NewOrSpecification
    \/ And
    \/ Or
    \/ Invert
    \/ IsSatisfied

----------------------------------------------------------------------------
(* OCP.py: filtering product lists *)

\* Product lists of up to MaxLen catalog products, repetitions included.
ProductLists ==
    UNION { [1..n -> Catalog] : n \in 0..MaxLen }

\* Specifications handed to the filter: every simple one, every & and | of
\* two demo specifications, and every negated simple one.
FilterSpecs ==
    AtomSpecs
        \cup { Specification_and(a, b) : a \in DemoAtoms, b \in DemoAtoms }
        \cup { Specification_or(a, b) : a \in DemoAtoms, b \in DemoAtoms }
        \cup { Specification_invert(a) : a \in AtomSpecs }

\* A filter that takes the products it selects out of the list it was given.
Filter_consuming ==
    \E spec \in FilterSpecs :
        /\ specification' = spec
        /\ filtered' = ProductFilter_filter(products, spec)
        /\ products' = ProductFilter_filter(products, NotSpecification(spec))
        /\ ocp_call' = "filter"
        /\ bad_args' = NoArgs
        /\ item' = NoProduct
        /\ satisfied' = FALSE
        /\ UNCHANGED operand
        /\ UNCHANGED notOcp

\* good_filter.filter(products, specification); the record of the last
\* is_satisfied call is cleared.
Filter ==
    \E spec \in FilterSpecs :
        /\ specification' = spec
        /\ filtered' = ProductFilter_filter(products, spec)
        /\ ocp_call' = "filter"
        /\ bad_args' = NoArgs
        /\ item' = NoProduct
        /\ satisfied' = FALSE
        /\ UNCHANGED <<products, operand>>
        /\ UNCHANGED notOcp

\* A call of a ProductFilter_2 method with the given arguments.
BadFiltered(name, args, result) ==
    /\ filtered' = result
    /\ ocp_call' = name
    /\ bad_args' = args
    /\ specification' = NoSpecification
    /\ item' = NoProduct
    /\ satisfied' = FALSE
    /\ UNCHANGED <<products, operand>>
    /\ UNCHANGED notOcp

\* bad_filter.filter_by_color(products, color)
FilterByColor ==
    \E color \in Color :
        BadFiltered("filter_by_color", [NoArgs EXCEPT !.color = color],
                    ProductFilter_2_filter_by_color(products, color))

\* bad_filter.filter_by_size(products, size)
FilterBySize ==
    \E size \in Size :
        BadFiltered("filter_by_size", [NoArgs EXCEPT !.size = size],
                    ProductFilter_2_filter_by_size(products, size))

\* bad_filter.filter_by_color_and_size(products, color, size)
FilterByColorAndSize ==
    \E color \in Color, size \in Size :
        BadFiltered("filter_by_color_and_size",
                    [NoArgs EXCEPT !.color = color, !.size = size],
                    ProductFilter_2_filter_by_color_and_size(products, color, size))

\* bad_filter.filter_by_material(products, material)
FilterByMaterial ==
    \E material \in Material :
        BadFiltered("filter_by_material", [NoArgs EXCEPT !.material = material],
                    ProductFilter_2_filter_by_material(products, material))

FilterNext ==
    \/ Filter
    \/ FilterByColor
    \/ FilterBySize
    \/ FilterByColorAndSize
    \/ FilterByMaterial

\* Lists of up to MaxLen of main()'s products, repetitions included.
FrameLists ==
    UNION { [1..n -> { DemoProducts[i] : i \in DOMAIN DemoProducts }] :
                n \in 0..MaxLen }

\* specification.is_satisfied(p) for a product p of the list, with the
\* specification last handed to the filter.
FilterIsSatisfied ==
    /\ specification # NoSpecification
    /\ \E i \in DOMAIN products :
           /\ item' = products[i]
           /\ satisfied' = is_satisfied(specification, products[i])
    /\ ocp_call' = "is_satisfied"
    /\ UNCHANGED <<products, specification, filtered, operand, bad_args>>
    /\ UNCHANGED notOcp

FrameNext ==
    \/ Filter
    \/ FilterByColor
    \/ FilterBySize
    \/ FilterByColorAndSize
    \/ FilterByMaterial
    \/ FilterIsSatisfied

----------------------------------------------------------------------------
(* ISP.py: Product, Order and the method results *)

\* ISP.py's Product: name, color, price (the price in cents).
PricedProduct(name, color, price) ==
    [name |-> name, color |-> color, price |-> price]

\* The two products main() orders.
DemoOrderProducts ==
    << PricedProduct("T-Shirt", "RED", 2000),
       PricedProduct("Table", "GREEN", 15000) >>

\* Order.__init__: the given products, not yet paid.
Order(ps) == [products |-> ps, is_paid |-> FALSE]

NoException == [type |-> "None", message |-> ""]
NotImplementedError(message) ==
    [type |-> "NotImplementedError", message |-> message]

ReturnNone == [kind |-> "none"]
ReturnBool(b) == [kind |-> "bool", val |-> b]
ReturnStr(text) == [kind |-> "str", val |-> text]

\* What a call does: the order as it leaves it, the value returned, the
\* exception raised (then nothing is returned), the lines printed, and the
\* calls it made in turn.
Returns(o, ret, printed) ==
    [order |-> o, ret |-> ret, exc |-> NoException, out |-> printed, calls |-> <<>>]
Raises(o, exc) ==
    [order |-> o, ret |-> ReturnNone, exc |-> exc, out |-> <<>>, calls |-> <<>>]

\* str() of a float price: "20.0", "20.5", "20.05".
FloatStr(cents) ==
    ToString(cents \div 100) \o "." \o
        (IF cents % 10 = 0 THEN ToString((cents % 100) \div 10)
         ELSE ToString((cents % 100) \div 10) \o ToString(cents % 10))

\* f"- {product.name} ({product.color.name}, ${product.price})\n"
OrderItemLine(product) ==
    "- " \o product.name \o " (" \o product.color \o ", $"
        \o FloatStr(product.price) \o ")\n"

\* The loop of display_order: result += a line per product, in the order of
\* order.products.
RECURSIVE OrderItemLines(_)
OrderItemLines(ps) ==
    IF ps = <<>> THEN ""
    ELSE OrderItemLine(Head(ps)) \o OrderItemLines(Tail(ps))

\* The string display_order returns: the heading, then the product lines.
OrderText(o) == "Order items:\n" \o OrderItemLines(o.products)

\* f"Email sent: Order with {len(order.products)} items has been processed!"
EmailSentLine(o) ==
    "Email sent: Order with " \o ToString(Len(o.products))
        \o " items has been processed!"

----------------------------------------------------------------------------
(* ISP.py: the classes of the wide interface *)

UIDisplayBad_display_order(o) == Returns(o, ReturnStr(OrderText(o)), <<>>)

\* A slip in UIDisplayBad.process_payment: the payment is taken after all.
UIDisplayBad_process_payment_pays(o) ==
    Returns([o EXCEPT !.is_paid = TRUE], ReturnBool(TRUE), <<>>)

UIDisplayBad_process_payment(o) ==
    Raises(o, NotImplementedError("UI does not handle payments"))

UIDisplayBad_send_notification(o) ==
    Raises(o, NotImplementedError("UI does not send notifications"))

PaymentSystemBad_display_order(o) ==
    Raises(o, NotImplementedError("Payment system does not display orders"))

\* A slip in PaymentSystemBad.process_payment: it refuses like its siblings.
PaymentSystemBad_process_payment_raises(o) ==
    Raises(o, NotImplementedError("Payment system does not take payments"))

PaymentSystemBad_process_payment(o) ==
    Returns([o EXCEPT !.is_paid = TRUE], ReturnBool(TRUE), <<>>)

PaymentSystemBad_send_notification(o) ==
    Raises(o, NotImplementedError("Payment system does not send notifications"))

----------------------------------------------------------------------------
(* ISP.py: the classes of the narrow interfaces *)

UIDisplay_display_order(o) == Returns(o, ReturnStr(OrderText(o)), <<>>)

\* A slip in PaymentSystem.process_payment: a paid order is refused.
PaymentSystem_process_payment_once(o) ==
    IF o.is_paid THEN Returns(o, ReturnBool(FALSE), <<>>)
    ELSE Returns([o EXCEPT !.is_paid = TRUE], ReturnBool(TRUE), <<>>)

PaymentSystem_process_payment(o) ==
    Returns([o EXCEPT !.is_paid = TRUE], ReturnBool(TRUE), <<>>)

NotificationSystem_send_notification(o) ==
    Returns(o, ReturnNone, <<EmailSentLine(o)>>)

\* self.display.display_order(order), dispatched on the display's class.
display_order(cls, o) ==
    CASE cls = "UIDisplay" -> UIDisplay_display_order(o)
      [] cls = "UIDisplayBad" -> UIDisplayBad_display_order(o)
      [] cls = "PaymentSystemBad" -> PaymentSystemBad_display_order(o)

\* An OrderPayment implementation that declines: process_payment returns
\* False and leaves the order alone.  No class of ISP.py does so; it is the
\* argument that takes process_order down the branch without notification.
DecliningPayment_process_payment(o) == Returns(o, ReturnBool(FALSE), <<>>)

\* self.payment.process_payment(order), dispatched on the payment's class.
process_payment(cls, o) ==
    CASE cls = "PaymentSystem" -> PaymentSystem_process_payment(o)
      [] cls = "DecliningPayment" -> DecliningPayment_process_payment(o)
      [] cls = "UIDisplayBad" -> UIDisplayBad_process_payment(o)
      [] cls = "PaymentSystemBad" -> PaymentSystemBad_process_payment(o)

\* self.notification.send_notification(order), dispatched on its class.
send_notification(cls, o) ==
    CASE cls = "NotificationSystem" -> NotificationSystem_send_notification(o)
      [] cls = "UIDisplayBad" -> UIDisplayBad_send_notification(o)
      [] cls = "PaymentSystemBad" -> PaymentSystemBad_send_notification(o)

DisplayClasses == {"UIDisplay", "UIDisplayBad", "PaymentSystemBad"}
PaymentClasses ==
    {"PaymentSystem", "DecliningPayment", "UIDisplayBad", "PaymentSystemBad"}
NotificationClasses == {"NotificationSystem", "UIDisplayBad", "PaymentSystemBad"}

\* How a call ended, as its caller sees it.
Outcome(result) ==
    IF result.exc # NoException THEN "raised"
    ELSE IF result.ret.kind = "bool"
    THEN (IF result.ret.val THEN "true" ELSE "false")
    ELSE result.ret.kind

\* One call made by process_order: on which collaborator, which method,
\* whether the order was paid when it was made, and how it ended.
Call(target, method, o, result) ==
    [target |-> target, method |-> method, paid |-> o.is_paid,
     outcome |-> Outcome(result)]

\* The print(...) statement of process_order.
PrintCall(o) ==
    [target |-> "builtins", method |-> "print", paid |-> o.is_paid,
     outcome |-> "none"]

\* A slip in process_order: the notification does not wait for the payment's
\* answer.
OrderProcessor_process_order_always(display, payment, notification, o) ==
    LET shown == display_order(display, o)
        c1 == <<Call(display, "display_order", o, shown)>>
    IN  IF shown.exc # NoException
        THEN [Raises(shown.order, shown.exc) EXCEPT !.calls = c1]
        ELSE
        LET printed == shown.out \o <<shown.ret.val>>
            paid == process_payment(payment, shown.order)
            c2 == c1 \o <<PrintCall(shown.order),
                          Call(payment, "process_payment", shown.order, paid)>>
        IN  IF paid.exc # NoException
            THEN [Raises(paid.order, paid.exc) EXCEPT !.out = printed, !.calls = c2]
            ELSE LET sent == send_notification(notification, paid.order)
                 IN  [sent EXCEPT !.out = printed \o paid.out \o sent.out,
                                  !.ret = ReturnNone,
                                  !.calls = c2 \o <<Call(notification, "send_notification",
                                                         paid.order, sent)>>]

\* OrderProcessor.process_order: print the display's text, take the payment,
\* and notify if the payment returned true.  An exception raised by a
\* collaborator ends the method there and propagates.
OrderProcessor_process_order(display, payment, notification, o) ==
    LET shown == display_order(display, o)
        c1 == <<Call(display, "display_order", o, shown)>>
    IN  IF shown.exc # NoException
        THEN [Raises(shown.order, shown.exc) EXCEPT !.calls = c1]
        ELSE
        LET printed == shown.out \o <<shown.ret.val>>
            paid == process_payment(payment, shown.order)
            c2 == c1 \o <<PrintCall(shown.order),
                          Call(payment, "process_payment", shown.order, paid)>>
        IN  IF paid.exc # NoException
            THEN [Raises(paid.order, paid.exc) EXCEPT !.out = printed, !.calls = c2]
            ELSE IF paid.ret.val
            THEN LET sent == send_notification(notification, paid.order)
                 IN  [sent EXCEPT !.out = printed \o paid.out \o sent.out,
                                  !.ret = ReturnNone,
                                  !.calls = c2 \o <<Call(notification, "send_notification",
                                                         paid.order, sent)>>]
            ELSE [Returns(paid.order, ReturnNone, printed \o paid.out)
                    EXCEPT !.calls = c2]

----------------------------------------------------------------------------
(* ISP.py: calls on an order *)

\* Orders of up to MaxLen of the demo's products, repetitions included.
OrderLists ==
    UNION { [1..n -> { DemoOrderProducts[i] : i \in DOMAIN DemoOrderProducts }] :
            n \in 0..MaxLen }

\* Perform a call: the order, the exception, the return value and the printed
\* lines become what the method leaves.
Called(name, result) ==
    /\ isp_call' = name
    /\ order' = result.order
    /\ isp_exc' = result.exc
    /\ isp_ret' = result.ret
    /\ isp_out' = result.out
    /\ isp_calls' = result.calls
    /\ UNCHANGED notIsp

CallUIDisplayBadDisplayOrder ==
    Called("UIDisplayBad.display_order", UIDisplayBad_display_order(order))
CallUIDisplayBadProcessPayment ==
    Called("UIDisplayBad.process_payment", UIDisplayBad_process_payment(order))
CallUIDisplayBadSendNotification ==
    Called("UIDisplayBad.send_notification", UIDisplayBad_send_notification(order))
CallPaymentSystemBadDisplayOrder ==
    Called("PaymentSystemBad.display_order", PaymentSystemBad_display_order(order))
CallPaymentSystemBadProcessPayment ==
    Called("PaymentSystemBad.process_payment", PaymentSystemBad_process_payment(order))
CallPaymentSystemBadSendNotification ==
    Called("PaymentSystemBad.send_notification",
           PaymentSystemBad_send_notification(order))
CallUIDisplayDisplayOrder ==
    Called("UIDisplay.display_order", UIDisplay_display_order(order))
CallPaymentSystemProcessPayment ==
    Called("PaymentSystem.process_payment", PaymentSystem_process_payment(order))
CallNotificationSystemSendNotification ==
    Called("NotificationSystem.send_notification",
           NotificationSystem_send_notification(order))

\* OrderProcessor(display, payment, notification).process_order(order), the
\* collaborators of any class that has the method asked of it.
CallProcessOrder ==
    \E display \in DisplayClasses, payment \in PaymentClasses,
       notification \in NotificationClasses :
        Called("OrderProcessor.process_order",
               OrderProcessor_process_order(display, payment, notification, order))

IspNext ==
    \/ CallUIDisplayBadDisplayOrder
    \/ CallUIDisplayBadProcessPayment
    \/ CallUIDisplayBadSendNotification
    \/ CallPaymentSystemBadDisplayOrder
    \/ CallPaymentSystemBadProcessPayment
    \/ CallPaymentSystemBadSendNotification
    \/ CallUIDisplayDisplayOrder
    \/ CallPaymentSystemProcessPayment
    \/ CallNotificationSystemSendNotification
    \/ CallProcessOrder

----------------------------------------------------------------------------
(* OCP_2.py: the discount strategies *)

(***************************************************************************)
(* Money is counted in cents.  The purchase amounts of the model are whole *)
(* dollars, for which a whole percentage is a whole number of cents: the   *)
(* float product purchase_amount * 0.05 is then that number of cents to    *)
(* within rounding error, and "{discount:.2f}" prints exactly it.          *)
(***************************************************************************)

\* purchase_amount * rate, the rate given in hundredths (0.05 is 5).
Times(amount, hundredths) == (amount * hundredths) \div 100

\* A slip in PremiumDiscount: the regular rate is left in place.
PremiumDiscount_calculate_discount_regular(purchase_amount) ==
    Times(purchase_amount, 5)

RegularDiscount_calculate_discount(purchase_amount) == Times(purchase_amount, 5)
PremiumDiscount_calculate_discount(purchase_amount) == Times(purchase_amount, 15)
CorporateDiscount_calculate_discount(purchase_amount) == Times(purchase_amount, 20)
\* The VipDiscount class main() defines.
VipDiscount_calculate_discount(purchase_amount) == Times(purchase_amount, 25)

DiscountStrategies ==
    {"RegularDiscount", "PremiumDiscount", "CorporateDiscount", "VipDiscount"}

\* strategy.calculate_discount(purchase_amount), dispatched on its class.
calculate_discount(strategy, purchase_amount) ==
    CASE strategy = "RegularDiscount" ->
             RegularDiscount_calculate_discount(purchase_amount)
      [] strategy = "PremiumDiscount" ->
             PremiumDiscount_calculate_discount(purchase_amount)
      [] strategy = "CorporateDiscount" ->
             CorporateDiscount_calculate_discount(purchase_amount)
      [] strategy = "VipDiscount" ->
             VipDiscount_calculate_discount(purchase_amount)

\* Customer.__init__: a customer type, no purchase yet.
\* The members of the CustomerType enum.
CustomerType == {"REGULAR", "PREMIUM", "CORPORATE"}

\* No Customer handed to DiscountCalculatorBad yet.
NoCustomer == [name |-> "", customer_type |-> "NONE", purchase_amount |-> 0]

Customer(name, customer_type) ==
    [name |-> name, customer_type |-> customer_type, purchase_amount |-> 0]

Customer_set_purchase_amount(self, amount) ==
    [self EXCEPT !.purchase_amount = amount]

\* A slip in the if/elif chain: the corporate branch is missing.
DiscountCalculatorBad_calculate_discount_short(customer) ==
    IF customer.customer_type = "REGULAR" THEN Times(customer.purchase_amount, 5)
    ELSE IF customer.customer_type = "PREMIUM" THEN Times(customer.purchase_amount, 15)
    ELSE 0

\* DiscountCalculatorBad.calculate_discount: the if/elif chain on the type.
DiscountCalculatorBad_calculate_discount(customer) ==
    IF customer.customer_type = "REGULAR" THEN Times(customer.purchase_amount, 5)
    ELSE IF customer.customer_type = "PREMIUM" THEN Times(customer.purchase_amount, 15)
    ELSE IF customer.customer_type = "CORPORATE" THEN Times(customer.purchase_amount, 20)
    ELSE 0

\* CustomerWithDiscount.__init__: no purchase yet.
CustomerWithDiscount(name, discount_strategy) ==
    [name |-> name, discount_strategy |-> discount_strategy, purchase_amount |-> 0]

CustomerWithDiscount_set_purchase_amount(self, amount) ==
    [self EXCEPT !.purchase_amount = amount]

CustomerWithDiscount_get_discount(self) ==
    calculate_discount(self.discount_strategy, self.purchase_amount)

\* "{discount:.2f}" of a whole number of cents: dollars, point, two digits.
Format2f(cents) ==
    ToString(cents \div 100) \o "." \o ToString((cents % 100) \div 10)
        \o ToString(cents % 10)

\* f"{customer.name} gets a discount of ${discount:.2f}"
DiscountLine(name, discount) ==
    name \o " gets a discount of $" \o Format2f(discount)

\* A slip in process_discounts: the loop stops one customer short.
RECURSIVE DiscountProcessor_process_discounts_short(_)
DiscountProcessor_process_discounts_short(cs) ==
    IF Len(cs) <= 1 THEN <<>>
    ELSE <<DiscountLine(Head(cs).name, CustomerWithDiscount_get_discount(Head(cs)))>>
            \o DiscountProcessor_process_discounts_short(Tail(cs))

\* DiscountProcessor.process_discounts: for each customer in list order, get
\* its discount and print its line.  The lines printed are the result; no
\* customer is written to.
RECURSIVE DiscountProcessor_process_discounts(_)
DiscountProcessor_process_discounts(cs) ==
    IF cs = <<>> THEN <<>>
    ELSE <<DiscountLine(Head(cs).name, CustomerWithDiscount_get_discount(Head(cs)))>>
            \o DiscountProcessor_process_discounts(Tail(cs))

----------------------------------------------------------------------------
(* OCP_2.py: operations on a list of customers *)

CustomerNames == {"Alice", "Bob"}

\* Purchase amounts in cents: nothing, $33 and the demo's $100.
Amounts == {0, 3300, 10000}

CustomerLists ==
    UNION { [1..n -> { CustomerWithDiscount(name, strategy) :
                         name \in CustomerNames, strategy \in DiscountStrategies }] :
            n \in 0..MaxCustomers }

\* customers[i].set_purchase_amount(amount)
SetPurchaseAmount ==
    \E i \in DOMAIN customers, amount \in Amounts :
        /\ customers' =
              [customers EXCEPT
                  ![i] = CustomerWithDiscount_set_purchase_amount(customers[i], amount)]
        /\ disc_call' = "set_purchase_amount"
        /\ disc_arg' = i
        /\ disc_ret' = 0
        /\ disc_out' = <<>>
        /\ bad_customer' = NoCustomer
        /\ UNCHANGED notDisc

\* customers[i].get_discount()
GetDiscount ==
    \E i \in DOMAIN customers :
        /\ disc_ret' = CustomerWithDiscount_get_discount(customers[i])
        /\ disc_call' = "get_discount"
        /\ disc_arg' = i
        /\ disc_out' = <<>>
        /\ bad_customer' = NoCustomer
        /\ UNCHANGED customers
        /\ UNCHANGED notDisc

\* processor.process_discounts(customers)
ProcessDiscounts ==
    /\ disc_out' = DiscountProcessor_process_discounts(customers)
    /\ disc_call' = "process_discounts"
    /\ disc_arg' = 0
    /\ disc_ret' = 0
    /\ bad_customer' = NoCustomer
    /\ UNCHANGED customers
    /\ UNCHANGED notDisc

\* DiscountCalculatorBad().calculate_discount(customer), the customer of any
\* type and with any purchase amount set.
BadCalculateDiscount ==
    \E name \in CustomerNames, customer_type \in CustomerType, amount \in Amounts :
        LET customer ==
                Customer_set_purchase_amount(Customer(name, customer_type), amount)
        IN  /\ bad_customer' = customer
            /\ disc_ret' = DiscountCalculatorBad_calculate_discount(customer)
            /\ disc_call' = "calculate_discount"
            /\ disc_arg' = 0
            /\ disc_out' = <<>>
            /\ UNCHANGED customers
            /\ UNCHANGED notDisc

DiscNext ==
    \/ BadCalculateDiscount
    \/ SetPurchaseAmount
    \/ GetDiscount
    \/ ProcessDiscounts

----------------------------------------------------------------------------
(* DIP.py: notification services and order processors *)

\* DIP.py's Order holds its products only.
DipOrder(ps) == [products |-> ps]

\* f"Processing order with {len(order.products)} items..."
ProcessingOrderLine(o) ==
    "Processing order with " \o ToString(Len(o.products)) \o " items..."

\* f"SMS sent: Order with {len(order.products)} items has been processed!"
SmsSentLine(o) ==
    "SMS sent: Order with " \o ToString(Len(o.products))
        \o " items has been processed!"

\* Each method is the lines it prints.
EmailServiceBad_send_email(o) == <<EmailSentLine(o)>>
EmailService_send_notification(o) == <<EmailSentLine(o)>>
SmsService_send_notification(o) == <<SmsSentLine(o)>>

\* OrderProcessorBad.process_order: its own EmailServiceBad sends the email.
OrderProcessorBad_process_order(o) ==
    <<ProcessingOrderLine(o)>> \o EmailServiceBad_send_email(o)

\* A slip in the dispatch: the email service is used whatever was injected.
Dip_send_notification_email(service, o) == EmailService_send_notification(o)

\* self.notification_service.send_notification(order), dispatched on the
\* class of the injected service.
Dip_send_notification(service, o) ==
    CASE service = "EmailService" -> EmailService_send_notification(o)
      [] service = "SmsService" -> SmsService_send_notification(o)

\* DIP.py's OrderProcessor.process_order, the service given at construction.
Dip_OrderProcessor_process_order(service, o) ==
    <<ProcessingOrderLine(o)>> \o Dip_send_notification(service, o)

\* The calls process_order makes on notification services: which service,
\* which method, with which order, and after how many of its own prints.
OrderProcessorBad_process_order_calls(o) ==
    << [service |-> "EmailServiceBad", method |-> "send_email", order |-> o,
        after |-> Len(<<ProcessingOrderLine(o)>>)] >>

Dip_OrderProcessor_process_order_calls(service, o) ==
    << [service |-> service, method |-> "send_notification", order |-> o,
        after |-> Len(<<ProcessingOrderLine(o)>>)] >>

----------------------------------------------------------------------------
(* DIP.py: operations on an order *)

NotificationServices == {"EmailService", "SmsService"}

\* order = Order(products)
DipNewOrder ==
    \E ps \in OrderLists :
        /\ dip_order' = DipOrder(ps)
        /\ dip_call' = "Order"
        /\ dip_out' = <<>>
        /\ dip_calls' = <<>>
        /\ UNCHANGED dip_service
        /\ UNCHANGED notDip

\* processor = OrderProcessor(service)
DipNewOrderProcessor ==
    \E service \in NotificationServices :
        /\ dip_service' = service
        /\ dip_call' = "OrderProcessor"
        /\ dip_out' = <<>>
        /\ dip_calls' = <<>>
        /\ UNCHANGED dip_order
        /\ UNCHANGED notDip

\* processor.process_order(order)
DipProcessOrder ==
    /\ dip_service \in NotificationServices
    /\ dip_call' = "OrderProcessor.process_order"
    /\ dip_out' = Dip_OrderProcessor_process_order(dip_service, dip_order)
    /\ dip_calls' = Dip_OrderProcessor_process_order_calls(dip_service, dip_order)
    /\ UNCHANGED <<dip_service, dip_order>>
    /\ UNCHANGED notDip

\* OrderProcessorBad().process_order(order)
DipBadProcessOrder ==
    /\ dip_call' = "OrderProcessorBad.process_order"
    /\ dip_out' = OrderProcessorBad_process_order(dip_order)
    /\ dip_calls' = OrderProcessorBad_process_order_calls(dip_order)
    /\ UNCHANGED <<dip_service, dip_order>>
    /\ UNCHANGED notDip

DipNext ==
    \/ DipNewOrder
    \/ DipNewOrderProcessor
    \/ DipProcessOrder
    \/ DipBadProcessOrder

----------------------------------------------------------------------------
(* SRP.py: the product manager and its single-purpose replacements *)

\* f"<li>{product.name} ({product.color.name}, ${product.price})</li>"
HtmlItem(product) ==
    "<li>" \o product.name \o " (" \o product.color \o ", $"
        \o FloatStr(product.price) \o ")</li>"

RECURSIVE HtmlItems(_)
HtmlItems(ps) ==
    IF ps = <<>> THEN "" ELSE HtmlItem(Head(ps)) \o HtmlItems(Tail(ps))

\* f"Email sent: You purchased {product_name}! Thank you for shopping!"
PurchaseLine(product_name) ==
    "Email sent: You purchased " \o product_name \o "! Thank you for shopping!"

\* A slip in the display: an ordered list instead of an unordered one.
ProductDisplay_display_ol(ps) == "<ol>" \o HtmlItems(ps) \o "</ol>"

\* A slip in add_product: the product is put at the front of the list.
ProductRepository_add_product_front(self, product) ==
    [self EXCEPT !.products = <<product>> \o @]

\* ProductManagerBad: the list self.products, empty at construction.
ProductManagerBad == [products |-> <<>>]

ProductManagerBad_add_product(self, name, color, price) ==
    [self EXCEPT !.products = Append(@, PricedProduct(name, color, price))]

ProductManagerBad_display_products(self) ==
    "<ul>" \o HtmlItems(self.products) \o "</ul>"

ProductManagerBad_send_purchase_notification(self, product_name) ==
    <<PurchaseLine(product_name)>>

\* ProductManagerBad.process_purchase, as the lines it prints.
ProductManagerBad_process_purchase(self, product_name) ==
    <<"Processing purchase...", ProductManagerBad_display_products(self)>>
        \o ProductManagerBad_send_purchase_notification(self, product_name)

\* ProductRepository: the list self.products, empty at construction.
ProductRepository == [products |-> <<>>]

ProductRepository_add_product(self, product) ==
    [self EXCEPT !.products = Append(@, product)]

ProductRepository_get_products(self) == self.products

ProductDisplay_display(ps) == "<ul>" \o HtmlItems(ps) \o "</ul>"

NotificationService_send_purchase_notification(product_name) ==
    <<PurchaseLine(product_name)>>

\* PurchaseProcessor.process_purchase on its repository, as the lines printed.
PurchaseProcessor_process_purchase(repository, product_name) ==
    <<"Processing purchase...",
      ProductDisplay_display(ProductRepository_get_products(repository))>>
        \o NotificationService_send_purchase_notification(product_name)

----------------------------------------------------------------------------
(* SRP.py: instances and the lists they hold *)

(***************************************************************************)
(* A Python list is an object: two attributes may name the same list, and  *)
(* an append through one is then seen through the other.  srp_heap holds   *)
(* the lists by identity; an instance's products attribute is the identity *)
(* of its list.                                                            *)
(***************************************************************************)

\* A slip in the allocation: one list serves every instance.
NewList_shared(heap) == 1

\* The expression `[]': a list object no attribute names yet.
NewList(heap) == Len(heap) + 1

\* The heap with list id holding value.
Store(heap, id, value) ==
    [i \in 1..(IF id > Len(heap) THEN id ELSE Len(heap)) |->
        IF i = id THEN value ELSE heap[i]]

\* The instance as the methods see it: its products attribute read through.
Deref(obj) == [products |-> srp_heap[obj.products]]

\* The products main() adds (SRP.py 150-151, 157-158).
SrpProducts ==
    { PricedProduct("T-Shirt", "RED", 2000), PricedProduct("Table", "GREEN", 15000) }

\* The product names given to process_purchase.
PurchaseNames == {"T-Shirt", "Table"}

RECURSIVE TotalLen(_)
TotalLen(lists) ==
    IF lists = <<>> THEN 0 ELSE Len(Head(lists)) + TotalLen(Tail(lists))

\* self.products = [] in __init__ of class cls.
SrpNew(cls, fresh) ==
    /\ Len(srp_objects) < MaxInstances
    /\ LET id == NewList(srp_heap)
       IN  /\ srp_heap' = Store(srp_heap, id, fresh.products)
           /\ srp_objects' = Append(srp_objects, [class |-> cls, products |-> id])
    /\ srp_added' = Append(srp_added, <<>>)
    /\ srp_call' = cls
    /\ srp_arg' = Len(srp_objects) + 1
    /\ srp_ret' = <<>>
    /\ srp_text' = ""
    /\ srp_out' = <<>>
    /\ UNCHANGED notSrp

SrpNewRepository == SrpNew("ProductRepository", ProductRepository)

SrpNewManager == SrpNew("ProductManagerBad", ProductManagerBad)

\* The instances of a class.
InstancesOf(cls) == { i \in DOMAIN srp_objects : srp_objects[i].class = cls }

\* A call of add_product on instance i that leaves it as after.
SrpAdded(i, name, product, after) ==
    /\ TotalLen(srp_added) < MaxAdds
    /\ srp_heap' = Store(srp_heap, srp_objects[i].products, after.products)
    /\ srp_added' = [srp_added EXCEPT ![i] = Append(@, product)]
    /\ srp_call' = name
    /\ srp_arg' = i
    /\ srp_ret' = <<>>
    /\ srp_text' = ""
    /\ srp_out' = <<>>
    /\ UNCHANGED srp_objects
    /\ UNCHANGED notSrp

\* repository.add_product(product)
SrpRepositoryAddProduct ==
    \E i \in InstancesOf("ProductRepository"), product \in SrpProducts :
        SrpAdded(i, "ProductRepository.add_product", product,
                 ProductRepository_add_product(Deref(srp_objects[i]), product))

\* manager.add_product(name, color, price)
SrpManagerAddProduct ==
    \E i \in InstancesOf("ProductManagerBad"), product \in SrpProducts :
        SrpAdded(i, "ProductManagerBad.add_product", product,
                 ProductManagerBad_add_product(Deref(srp_objects[i]), product.name,
                                               product.color, product.price))

\* repository.get_products()
SrpGetProducts ==
    \E i \in InstancesOf("ProductRepository") :
        /\ srp_ret' = ProductRepository_get_products(Deref(srp_objects[i]))
        /\ srp_call' = "ProductRepository.get_products"
        /\ srp_arg' = i
        /\ srp_text' = ""
        /\ srp_out' = <<>>
        /\ UNCHANGED <<srp_heap, srp_objects, srp_added>>
        /\ UNCHANGED notSrp

\* A call on instance i that returns text.
SrpReturned(i, name, text) ==
    /\ srp_text' = text
    /\ srp_call' = name
    /\ srp_arg' = i
    /\ srp_ret' = <<>>
    /\ srp_out' = <<>>
    /\ UNCHANGED <<srp_heap, srp_objects, srp_added>>
    /\ UNCHANGED notSrp

\* manager.display_products()
SrpManagerDisplayProducts ==
    \E i \in InstancesOf("ProductManagerBad") :
        SrpReturned(i, "ProductManagerBad.display_products",
                    ProductManagerBad_display_products(Deref(srp_objects[i])))

\* ProductDisplay().display(repository.get_products())
SrpDisplay ==
    \E i \in InstancesOf("ProductRepository") :
        SrpReturned(i, "ProductDisplay.display",
                    ProductDisplay_display(
                        ProductRepository_get_products(Deref(srp_objects[i]))))

\* A call on instance i that prints lines.
SrpPrinted(i, name, printed) ==
    /\ srp_out' = printed
    /\ srp_call' = name
    /\ srp_arg' = i
    /\ srp_ret' = <<>>
    /\ srp_text' = ""
    /\ UNCHANGED <<srp_heap, srp_objects, srp_added>>
    /\ UNCHANGED notSrp

\* manager.process_purchase(product_name)
SrpManagerProcessPurchase ==
    \E i \in InstancesOf("ProductManagerBad"), product_name \in PurchaseNames :
        SrpPrinted(i, "ProductManagerBad.process_purchase",
                   ProductManagerBad_process_purchase(Deref(srp_objects[i]),
                                                      product_name))

\* PurchaseProcessor(repository, ProductDisplay(), NotificationService())
\*     .process_purchase(product_name)
SrpProcessPurchase ==
    \E i \in InstancesOf("ProductRepository"), product_name \in PurchaseNames :
        SrpPrinted(i, "PurchaseProcessor.process_purchase",
                   PurchaseProcessor_process_purchase(Deref(srp_objects[i]),
                                                      product_name))

SrpNext ==
    \/ SrpNewRepository
    \/ SrpNewManager
    \/ SrpRepositoryAddProduct
    \/ SrpManagerAddProduct
    \/ SrpGetProducts
    \/ SrpManagerDisplayProducts
    \/ SrpDisplay
    \/ SrpManagerProcessPurchase
    \/ SrpProcessPurchase

----------------------------------------------------------------------------
(* The main() drivers, statement by statement *)

(***************************************************************************)
(* A statement is named by its source line; a for statement has a second   *)
(* position, "<line>.next", where it asks its list for the next element.   *)
(* Executing a statement gives the locals it leaves, the lines it prints,  *)
(* the exception it raises (if any), the statement that follows, and the   *)
(* except clause of the try block around it (if any).  The Cyrillic text   *)
(* of the headings is transliterated.                                      *)
(***************************************************************************)

NoLocals == [idx |-> 0]

\* The locals after binding name to value (a name is absent until bound).
Bind(e, name, value) ==
    [n \in DOMAIN e \cup {name} |-> IF n = name THEN value ELSE e[n]]

NoHandler == [pc |-> "", type |-> ""]

\* A statement that completes normally.
Stmt(e, printed, next) ==
    [env |-> e, out |-> printed, exc |-> NoException, next |-> next,
     handler |-> NoHandler]

\* name = value
Assign(e, name, value, next) == Stmt(Bind(e, name, value), <<>>, next)

\* print(text)
PrintLine(e, text, next) == Stmt(e, <<text>>, next)

\* for ... in e[list]: start at the front of the list.
ForEnter(e, next) == Stmt([e EXCEPT !.idx = 0], <<>>, next)

\* The list iterator's next(): the element at the current position of the
\* list as it is now, if there is one, else the loop ends.
ForNext(e, list, var, body, after) ==
    IF e.idx < Len(e[list])
    THEN Stmt(Bind([e EXCEPT !.idx = e.idx + 1], var, e[list][e.idx + 1]), <<>>, body)
    ELSE Stmt(e, <<>>, after)

\* A method call on the order: the order is left as the method leaves it; the
\* method's exception, if any, is looked for by handler.
OrderCall(e, result, printed, next, handler) ==
    [env |-> [e EXCEPT !.order = result.order],
     out |-> result.out \o (IF result.exc = NoException THEN printed ELSE <<>>),
     exc |-> result.exc, next |-> next, handler |-> handler]

\* OCP.py main()
OcpLocals ==
    [idx |-> 0, iter |-> <<>>]

OcpMain(at, e) ==
    CASE at = "214" -> Assign(e, "products", DemoProducts, "222")
      [] at = "222" -> PrintLine(e, "=== Narushenie OCP (ProductFilter_2) ===", "223")
      [] at = "223" -> Assign(e, "bad_filter", "ProductFilter_2", "224")
      [] at = "224" -> PrintLine(e, "Products with RED color:", "225")
      [] at = "225" ->
            ForEnter([e EXCEPT !.iter =
                         ProductFilter_2_filter_by_color(e.products, "RED")],
                     "225.next")
      [] at = "225.next" -> ForNext(e, "iter", "p", "226", "227")
      [] at = "226" -> PrintLine(e, "- " \o e.p.name, "225.next")
      [] at = "227" -> PrintLine(e, "\nProducts with LARGE size:", "228")
      [] at = "228" ->
            ForEnter([e EXCEPT !.iter =
                         ProductFilter_2_filter_by_size(e.products, "LARGE")],
                     "228.next")
      [] at = "228.next" -> ForNext(e, "iter", "p", "229", "230")
      [] at = "229" -> PrintLine(e, "- " \o e.p.name, "228.next")
      [] at = "230" ->
            PrintLine(e, "\nProducts with WOOD material (trebuet novyi metod):", "231")
      [] at = "231" ->
            ForEnter([e EXCEPT !.iter =
                         ProductFilter_2_filter_by_material(e.products, "WOOD")],
                     "231.next")
      [] at = "231.next" -> ForNext(e, "iter", "p", "232", "235")
      [] at = "232" -> PrintLine(e, "- " \o e.p.name, "231.next")
      [] at = "235" -> PrintLine(e, "\n=== Soblyudenie OCP (ProductFilter) ===", "236")
      [] at = "236" -> Assign(e, "good_filter", "ProductFilter", "238")
      [] at = "238" -> Assign(e, "red_spec", ColorSpecification("RED"), "239")
      [] at = "239" -> PrintLine(e, "Products with RED color:", "240")
      [] at = "240" ->
            ForEnter([e EXCEPT !.iter = ProductFilter_filter(e.products, e.red_spec)],
                     "240.next")
      [] at = "240.next" -> ForNext(e, "iter", "p", "241", "243")
      [] at = "241" -> PrintLine(e, "- " \o e.p.name, "240.next")
      [] at = "243" -> Assign(e, "large_spec", SizeSpecification("LARGE"), "244")
      [] at = "244" -> PrintLine(e, "\nProducts with LARGE size:", "245")
      [] at = "245" ->
            ForEnter([e EXCEPT !.iter = ProductFilter_filter(e.products, e.large_spec)],
                     "245.next")
      [] at = "245.next" -> ForNext(e, "iter", "p", "246", "248")
      [] at = "246" -> PrintLine(e, "- " \o e.p.name, "245.next")
      [] at = "248" -> Assign(e, "wood_spec", MaterialSpecification("WOOD"), "249")
      [] at = "249" -> PrintLine(e, "\nProducts with WOOD material:", "250")
      [] at = "250" ->
            ForEnter([e EXCEPT !.iter = ProductFilter_filter(e.products, e.wood_spec)],
                     "250.next")
      [] at = "250.next" -> ForNext(e, "iter", "p", "251", "253")
      [] at = "251" -> PrintLine(e, "- " \o e.p.name, "250.next")
      [] at = "253" ->
            Assign(e, "red_and_large_spec",
                   AndSpecification(<<e.red_spec, e.large_spec>>), "254")
      [] at = "254" -> PrintLine(e, "\nProducts with RED color and LARGE size:", "255")
      [] at = "255" ->
            ForEnter([e EXCEPT !.iter =
                         ProductFilter_filter(e.products, e.red_and_large_spec)],
                     "255.next")
      [] at = "255.next" -> ForNext(e, "iter", "p", "256", "258")
      [] at = "256" -> PrintLine(e, "- " \o e.p.name, "255.next")
      [] at = "258" -> PrintLine(e, "\nProducts with LARGE size and BLUE color:", "259")
      [] at = "259" ->
            Assign(e, "large_blue",
                   AndSpecification(<<e.large_spec, ColorSpecification("BLUE")>>),
                   "270")
      [] at = "270" ->
            ForEnter([e EXCEPT !.iter = ProductFilter_filter(e.products, e.large_blue)],
                     "270.next")
      [] at = "270.next" -> ForNext(e, "iter", "p", "271", "done")
      [] at = "271" -> PrintLine(e, "- " \o e.p.name, "270.next")

\* OCP_2.py main()
Ocp2Locals ==
    [idx |-> 0, customers |-> <<>>,
     discount |-> 0, customers_with_discount |-> <<>>]

Ocp2Main(at, e) ==
    CASE at = "110" -> PrintLine(e, "=== Narushenie OCP ===", "112")
      [] at = "112" ->
            Assign(e, "customers",
                   << Customer("Alice", "REGULAR"), Customer("Bob", "PREMIUM"),
                      Customer("Charlie", "CORPORATE") >>, "117")
      [] at = "117" -> Assign(e, "calculator", "DiscountCalculatorBad", "118")
      [] at = "118" -> ForEnter(e, "118.next")
      [] at = "118.next" -> ForNext(e, "customers", "customer", "119", "123")
      \* customer names the list's element: the call changes that object.
      [] at = "119" ->
            LET c == Customer_set_purchase_amount(e.customer, 10000)
            IN  Stmt([e EXCEPT !.customer = c, !.customers[e.idx] = c], <<>>, "120")
      [] at = "120" ->
            Assign(e, "discount",
                   DiscountCalculatorBad_calculate_discount(e.customer), "121")
      [] at = "121" -> PrintLine(e, DiscountLine(e.customer.name, e.discount), "118.next")
      [] at = "123" -> PrintLine(e, "\n=== Soblyudenie OCP ===", "125")
      [] at = "125" ->
            Assign(e, "customers_with_discount",
                   << CustomerWithDiscount("Alice", "RegularDiscount"),
                      CustomerWithDiscount("Bob", "PremiumDiscount"),
                      CustomerWithDiscount("Charlie", "CorporateDiscount") >>, "130")
      [] at = "130" -> Assign(e, "processor", "DiscountProcessor", "131")
      [] at = "131" -> ForEnter(e, "131.next")
      [] at = "131.next" ->
            ForNext(e, "customers_with_discount", "customer", "132", "133")
      [] at = "132" ->
            LET c == CustomerWithDiscount_set_purchase_amount(e.customer, 10000)
            IN  Stmt([e EXCEPT !.customer = c, !.customers_with_discount[e.idx] = c],
                     <<>>, "131.next")
      [] at = "133" ->
            Stmt(e, DiscountProcessor_process_discounts(e.customers_with_discount),
                 "135")
      [] at = "135" ->
            PrintLine(e, "\n=== Dobavlenie novogo tipa skidki (rasshirenie) ===", "137")
      [] at = "137" -> Assign(e, "VipDiscount", "class", "142")
      [] at = "142" ->
            Assign(e, "vip_customer", CustomerWithDiscount("David", "VipDiscount"),
                   "143")
      [] at = "143" ->
            Assign(e, "vip_customer",
                   CustomerWithDiscount_set_purchase_amount(e.vip_customer, 10000),
                   "144")
      [] at = "144" ->
            Stmt(e, DiscountProcessor_process_discounts(<<e.vip_customer>>), "done")

\* ISP.py main()
IspLocals ==
    [idx |-> 0, order |-> Order(<<>>), raised |-> NoException, e |-> NoException]

Except190 == [pc |-> "190", type |-> "NotImplementedError"]
Except197 == [pc |-> "197", type |-> "NotImplementedError"]

IspMain(at, e) ==
    CASE at = "175" -> Assign(e, "products", DemoOrderProducts, "179")
      [] at = "179" -> Assign(e, "order", Order(e.products), "182")
      [] at = "182" ->
            PrintLine(e, "=== Narushenie ISP (UIDisplayBad, PaymentSystemBad) ===", "183")
      [] at = "183" -> Assign(e, "ui_bad", "UIDisplayBad", "184")
      [] at = "184" -> Assign(e, "payment_bad", "PaymentSystemBad", "186")
      [] at = "186" -> PrintLine(e, "UI pytaetsya otobrazit zakaz:", "187")
      [] at = "187" ->
            LET r == display_order(e.ui_bad, e.order)
            IN  OrderCall(e, r, IF r.exc = NoException THEN <<r.ret.val>> ELSE <<>>,
                          "189", NoHandler)
      [] at = "189" ->
            OrderCall(e, process_payment(e.ui_bad, e.order), <<>>, "193", Except190)
      [] at = "190" -> Assign(e, "e", e.raised, "191")
      [] at = "191" -> PrintLine(e, "Oshibka: " \o e.e.message, "193")
      [] at = "193" ->
            PrintLine(e, "\nPlatezhnaya sistema pytaetsya obrabotat oplatu:", "194")
      [] at = "194" ->
            OrderCall(e, process_payment(e.payment_bad, e.order), <<>>, "196",
                      NoHandler)
      [] at = "196" ->
            OrderCall(e, display_order(e.payment_bad, e.order), <<>>, "201", Except197)
      [] at = "197" -> Assign(e, "e", e.raised, "198")
      [] at = "198" -> PrintLine(e, "Oshibka: " \o e.e.message, "201")
      [] at = "201" ->
            PrintLine(e,
                  "\n=== Soblyudenie ISP (UIDisplay, PaymentSystem, NotificationSystem) ===",
                  "202")
      [] at = "202" -> Assign(e, "ui", "UIDisplay", "203")
      [] at = "203" -> Assign(e, "payment", "PaymentSystem", "204")
      [] at = "204" -> Assign(e, "notification", "NotificationSystem", "205")
      [] at = "205" ->
            Assign(e, "processor",
                   [display |-> e.ui, payment |-> e.payment,
                    notification |-> e.notification], "206")
      [] at = "206" ->
            OrderCall(e,
                      OrderProcessor_process_order(e.processor.display,
                                                   e.processor.payment,
                                                   e.processor.notification, e.order),
                      <<>>, "done", NoHandler)

\* DIP.py main()
DipLocals ==
    [idx |-> 0, order |-> DipOrder(<<>>)]

DipMain(at, e) ==
    CASE at = "112" -> Assign(e, "products", DemoOrderProducts, "116")
      [] at = "116" -> Assign(e, "order", DipOrder(e.products), "119")
      [] at = "119" -> PrintLine(e, "=== Narushenie DIP (OrderProcessorBad) ===", "120")
      [] at = "120" ->
            Assign(e, "bad_processor", [email_service |-> "EmailServiceBad"], "121")
      [] at = "121" -> Stmt(e, OrderProcessorBad_process_order(e.order), "124")
      [] at = "124" -> PrintLine(e, "\n=== Soblyudenie DIP (OrderProcessor) ===", "125")
      [] at = "125" -> Assign(e, "email_service", "EmailService", "126")
      [] at = "126" -> Assign(e, "sms_service", "SmsService", "128")
      [] at = "128" ->
            Assign(e, "processor_email",
                   [notification_service |-> e.email_service], "129")
      [] at = "129" -> PrintLine(e, "Obrabotka zakaza s email-uvedomleniem:", "130")
      [] at = "130" ->
            Stmt(e,
                 Dip_OrderProcessor_process_order(
                     e.processor_email.notification_service, e.order), "132")
      [] at = "132" ->
            Assign(e, "processor_sms", [notification_service |-> e.sms_service], "133")
      [] at = "133" -> PrintLine(e, "\nObrabotka zakaza s SMS-uvedomleniem:", "134")
      [] at = "134" ->
            Stmt(e,
                 Dip_OrderProcessor_process_order(
                     e.processor_sms.notification_service, e.order), "done")

\* SRP.py main()
SrpLocals ==
    [idx |-> 0]

SrpMain(at, e) ==
    CASE at = "148" -> PrintLine(e, "=== Plokhoi podkhod (ProductManagerBad) ===", "149")
      [] at = "149" -> Assign(e, "bad_manager", ProductManagerBad, "150")
      [] at = "150" ->
            Assign(e, "bad_manager",
                   ProductManagerBad_add_product(e.bad_manager, "T-Shirt", "RED", 2000),
                   "151")
      [] at = "151" ->
            Assign(e, "bad_manager",
                   ProductManagerBad_add_product(e.bad_manager, "Table", "GREEN", 15000),
                   "152")
      [] at = "152" ->
            Stmt(e, ProductManagerBad_process_purchase(e.bad_manager, "T-Shirt"), "155")
      [] at = "155" ->
            PrintLine(e, "\n=== Khoroshii podkhod (razdelenie otvetstvennosti) ===", "156")
      [] at = "156" -> Assign(e, "repository", ProductRepository, "157")
      [] at = "157" ->
            Assign(e, "repository",
                   ProductRepository_add_product(
                       e.repository, PricedProduct("T-Shirt", "RED", 2000)), "158")
      [] at = "158" ->
            Assign(e, "repository",
                   ProductRepository_add_product(
                       e.repository, PricedProduct("Table", "GREEN", 15000)), "160")
      [] at = "160" -> Assign(e, "display", "ProductDisplay", "161")
      [] at = "161" -> Assign(e, "notification", "NotificationService", "162")
      [] at = "162" ->
            Assign(e, "processor",
                   [display |-> e.display, notification |-> e.notification], "163")
      [] at = "163" ->
            Stmt(e, PurchaseProcessor_process_purchase(e.repository, "T-Shirt"), "done")

\* Execute one statement: what it prints is printed; if it completes, the
\* next statement follows; if it raises inside a try whose except clause
\* names the exception's type, the except clause follows; if it raises
\* elsewhere, main() ends with the exception and nothing more runs.
Execute(st) ==
    /\ out' = out \o st.out
    /\ IF st.exc = NoException
       THEN /\ env' = st.env
            /\ pc' = st.next
       ELSE IF st.handler.type = st.exc.type
       THEN /\ env' = [st.env EXCEPT !.raised = st.exc]
            /\ pc' = st.handler.pc
       ELSE /\ env' = st.env
            /\ pc' = "crashed"
    /\ UNCHANGED script
    /\ UNCHANGED notMain

Running == pc \notin {"done", "crashed"}

OcpMainStep == script = "OCP" /\ Running /\ Execute(OcpMain(pc, env))
Ocp2MainStep == script = "OCP_2" /\ Running /\ Execute(Ocp2Main(pc, env))
IspMainStep == script = "ISP" /\ Running /\ Execute(IspMain(pc, env))
DipMainStep == script = "DIP" /\ Running /\ Execute(DipMain(pc, env))
SrpMainStep == script = "SRP" /\ Running /\ Execute(SrpMain(pc, env))

MainNext ==
    \/ OcpMainStep
    \/ Ocp2MainStep
    \/ IspMainStep
    \/ DipMainStep
    \/ SrpMainStep

Scripts == {"OCP", "OCP_2", "ISP", "DIP", "SRP"}

\* The first statement of each main().
FirstLine(s) ==
    CASE s = "OCP" -> "214"
      [] s = "OCP_2" -> "110"
      [] s = "ISP" -> "175"
      [] s = "DIP" -> "112"
      [] s = "SRP" -> "148"

\* main()'s locals before its first statement.
Locals(s) ==
    CASE s = "OCP" -> OcpLocals
      [] s = "OCP_2" -> Ocp2Locals
      [] s = "ISP" -> IspLocals
      [] s = "DIP" -> DipLocals
      [] s = "SRP" -> SrpLocals

----------------------------------------------------------------------------
(* The specifications: each script runs alone, the others' state at rest *)

\* No specification built yet; nothing of the other scripts exists.
SpecificationInit ==
    /\ products = <<>>
    /\ specification = NoSpecification
    /\ filtered = <<>>
    /\ item = NoProduct
    /\ satisfied = FALSE
    /\ operand = NoSpecification
    /\ ocp_call = "init"
    /\ bad_args = NoArgs
    /\ order = Order(<<>>)
    /\ isp_call = "init"
    /\ isp_exc = NoException
    /\ isp_ret = ReturnNone
    /\ isp_out = <<>>
    /\ isp_calls = <<>>
    /\ customers = <<>>
    /\ disc_call = "init"
    /\ disc_arg = 0
    /\ disc_ret = 0
    /\ disc_out = <<>>
    /\ bad_customer = NoCustomer
    /\ dip_service = "none"
    /\ dip_order = DipOrder(<<>>)
    /\ dip_call = "init"
    /\ dip_out = <<>>
    /\ dip_calls = <<>>
    /\ srp_heap = <<>>
    /\ srp_objects = <<>>
    /\ srp_added = <<>>
    /\ srp_call = "init"
    /\ srp_arg = 0
    /\ srp_ret = <<>>
    /\ srp_text = ""
    /\ srp_out = <<>>
    /\ script = "none"
    /\ pc = "done"
    /\ env = NoLocals
    /\ out = <<>>

\* Building specifications with the constructors and operators of OCP.py and
\* evaluating them on products.
SpecSpecification == SpecificationInit /\ [][SpecificationNext]_vars

\* A product list and a specification, about to be handed to a filter.
FilterInit ==
    /\ products \in ProductLists
    /\ specification = NoSpecification
    /\ filtered = <<>>
    /\ item = NoProduct
    /\ satisfied = FALSE
    /\ operand = NoSpecification
    /\ ocp_call = "init"
    /\ bad_args = NoArgs
    /\ order = Order(<<>>)
    /\ isp_call = "init"
    /\ isp_exc = NoException
    /\ isp_ret = ReturnNone
    /\ isp_out = <<>>
    /\ isp_calls = <<>>
    /\ customers = <<>>
    /\ disc_call = "init"
    /\ disc_arg = 0
    /\ disc_ret = 0
    /\ disc_out = <<>>
    /\ bad_customer = NoCustomer
    /\ dip_service = "none"
    /\ dip_order = DipOrder(<<>>)
    /\ dip_call = "init"
    /\ dip_out = <<>>
    /\ dip_calls = <<>>
    /\ srp_heap = <<>>
    /\ srp_objects = <<>>
    /\ srp_added = <<>>
    /\ srp_call = "init"
    /\ srp_arg = 0
    /\ srp_ret = <<>>
    /\ srp_text = ""
    /\ srp_out = <<>>
    /\ script = "none"
    /\ pc = "done"
    /\ env = NoLocals
    /\ out = <<>>

\* ProductFilter.filter on every bounded product list and specification.
SpecFilter == FilterInit /\ [][FilterNext]_vars

\* A list of main()'s products, about to be filtered and its products
\* evaluated.
FrameInit ==
    /\ products \in FrameLists
    /\ specification = NoSpecification
    /\ filtered = <<>>
    /\ item = NoProduct
    /\ satisfied = FALSE
    /\ operand = NoSpecification
    /\ ocp_call = "init"
    /\ bad_args = NoArgs
    /\ order = Order(<<>>)
    /\ isp_call = "init"
    /\ isp_exc = NoException
    /\ isp_ret = ReturnNone
    /\ isp_out = <<>>
    /\ isp_calls = <<>>
    /\ customers = <<>>
    /\ disc_call = "init"
    /\ disc_arg = 0
    /\ disc_ret = 0
    /\ disc_out = <<>>
    /\ bad_customer = NoCustomer
    /\ dip_service = "none"
    /\ dip_order = DipOrder(<<>>)
    /\ dip_call = "init"
    /\ dip_out = <<>>
    /\ dip_calls = <<>>
    /\ srp_heap = <<>>
    /\ srp_objects = <<>>
    /\ srp_added = <<>>
    /\ srp_call = "init"
    /\ srp_arg = 0
    /\ srp_ret = <<>>
    /\ srp_text = ""
    /\ srp_out = <<>>
    /\ script = "none"
    /\ pc = "done"
    /\ env = NoLocals
    /\ out = <<>>

\* The filters and is_satisfied, called on one list again and again.
SpecFrame == FrameInit /\ [][FrameNext]_vars

\* A newly constructed order of any of the bounded product lists.
IspInit ==
    /\ products = <<>>
    /\ specification = NoSpecification
    /\ filtered = <<>>
    /\ item = NoProduct
    /\ satisfied = FALSE
    /\ operand = NoSpecification
    /\ ocp_call = "init"
    /\ bad_args = NoArgs
    /\ order \in { Order(ps) : ps \in OrderLists }
    /\ isp_call = "init"
    /\ isp_exc = NoException
    /\ isp_ret = ReturnNone
    /\ isp_out = <<>>
    /\ isp_calls = <<>>
    /\ customers = <<>>
    /\ disc_call = "init"
    /\ disc_arg = 0
    /\ disc_ret = 0
    /\ disc_out = <<>>
    /\ bad_customer = NoCustomer
    /\ dip_service = "none"
    /\ dip_order = DipOrder(<<>>)
    /\ dip_call = "init"
    /\ dip_out = <<>>
    /\ dip_calls = <<>>
    /\ srp_heap = <<>>
    /\ srp_objects = <<>>
    /\ srp_added = <<>>
    /\ srp_call = "init"
    /\ srp_arg = 0
    /\ srp_ret = <<>>
    /\ srp_text = ""
    /\ srp_out = <<>>
    /\ script = "none"
    /\ pc = "done"
    /\ env = NoLocals
    /\ out = <<>>

\* Any sequence of ISP.py method calls on one order.
SpecISP == IspInit /\ [][IspNext]_vars

\* A list of newly constructed customers.
DiscInit ==
    /\ products = <<>>
    /\ specification = NoSpecification
    /\ filtered = <<>>
    /\ item = NoProduct
    /\ satisfied = FALSE
    /\ operand = NoSpecification
    /\ ocp_call = "init"
    /\ bad_args = NoArgs
    /\ order = Order(<<>>)
    /\ isp_call = "init"
    /\ isp_exc = NoException
    /\ isp_ret = ReturnNone
    /\ isp_out = <<>>
    /\ isp_calls = <<>>
    /\ customers \in CustomerLists
    /\ disc_call = "init"
    /\ disc_arg = 0
    /\ disc_ret = 0
    /\ disc_out = <<>>
    /\ bad_customer = NoCustomer
    /\ dip_service = "none"
    /\ dip_order = DipOrder(<<>>)
    /\ dip_call = "init"
    /\ dip_out = <<>>
    /\ dip_calls = <<>>
    /\ srp_heap = <<>>
    /\ srp_objects = <<>>
    /\ srp_added = <<>>
    /\ srp_call = "init"
    /\ srp_arg = 0
    /\ srp_ret = <<>>
    /\ srp_text = ""
    /\ srp_out = <<>>
    /\ script = "none"
    /\ pc = "done"
    /\ env = NoLocals
    /\ out = <<>>

\* Any sequence of OCP_2.py operations on one list of customers.
SpecDiscount == DiscInit /\ [][DiscNext]_vars

\* One of the five scripts is started: main() is at its first statement.
MainInit ==
    /\ products = <<>>
    /\ specification = NoSpecification
    /\ filtered = <<>>
    /\ item = NoProduct
    /\ satisfied = FALSE
    /\ operand = NoSpecification
    /\ ocp_call = "init"
    /\ bad_args = NoArgs
    /\ order = Order(<<>>)
    /\ isp_call = "init"
    /\ isp_exc = NoException
    /\ isp_ret = ReturnNone
    /\ isp_out = <<>>
    /\ isp_calls = <<>>
    /\ customers = <<>>
    /\ disc_call = "init"
    /\ disc_arg = 0
    /\ disc_ret = 0
    /\ disc_out = <<>>
    /\ bad_customer = NoCustomer
    /\ dip_service = "none"
    /\ dip_order = DipOrder(<<>>)
    /\ dip_call = "init"
    /\ dip_out = <<>>
    /\ dip_calls = <<>>
    /\ srp_heap = <<>>
    /\ srp_objects = <<>>
    /\ srp_added = <<>>
    /\ srp_call = "init"
    /\ srp_arg = 0
    /\ srp_ret = <<>>
    /\ srp_text = ""
    /\ srp_out = <<>>
    /\ script \in Scripts
    /\ pc = FirstLine(script)
    /\ env = Locals(script)
    /\ out = <<>>

\* Running a script's main() from its first statement.
SpecMain == MainInit /\ [][MainNext]_vars

\* The interpreter runs a single thread and always executes the next
\* statement: a main() that can take a step does.
FairMain == SpecMain /\ WF_vars(MainNext)

\* No order processor built yet and an empty order; nothing of the other
\* scripts exists.
DipInit ==
    /\ products = <<>>
    /\ specification = NoSpecification
    /\ filtered = <<>>
    /\ item = NoProduct
    /\ satisfied = FALSE
    /\ operand = NoSpecification
    /\ ocp_call = "init"
    /\ bad_args = NoArgs
    /\ order = Order(<<>>)
    /\ isp_call = "init"
    /\ isp_exc = NoException
    /\ isp_ret = ReturnNone
    /\ isp_out = <<>>
    /\ isp_calls = <<>>
    /\ customers = <<>>
    /\ disc_call = "init"
    /\ disc_arg = 0
    /\ disc_ret = 0
    /\ disc_out = <<>>
    /\ bad_customer = NoCustomer
    /\ dip_service = "none"
    /\ dip_order = DipOrder(<<>>)
    /\ dip_call = "init"
    /\ dip_out = <<>>
    /\ dip_calls = <<>>
    /\ srp_heap = <<>>
    /\ srp_objects = <<>>
    /\ srp_added = <<>>
    /\ srp_call = "init"
    /\ srp_arg = 0
    /\ srp_ret = <<>>
    /\ srp_text = ""
    /\ srp_out = <<>>
    /\ script = "none"
    /\ pc = "done"
    /\ env = NoLocals
    /\ out = <<>>

\* Building orders and order processors of DIP.py and processing the orders.
SpecDIP == DipInit /\ [][DipNext]_vars

\* No instance of SRP.py's classes exists yet; nothing of the other scripts
\* exists.
SrpInit ==
    /\ products = <<>>
    /\ specification = NoSpecification
    /\ filtered = <<>>
    /\ item = NoProduct
    /\ satisfied = FALSE
    /\ operand = NoSpecification
    /\ ocp_call = "init"
    /\ bad_args = NoArgs
    /\ order = Order(<<>>)
    /\ isp_call = "init"
    /\ isp_exc = NoException
    /\ isp_ret = ReturnNone
    /\ isp_out = <<>>
    /\ isp_calls = <<>>
    /\ customers = <<>>
    /\ disc_call = "init"
    /\ disc_arg = 0
    /\ disc_ret = 0
    /\ disc_out = <<>>
    /\ bad_customer = NoCustomer
    /\ dip_service = "none"
    /\ dip_order = DipOrder(<<>>)
    /\ dip_call = "init"
    /\ dip_out = <<>>
    /\ dip_calls = <<>>
    /\ srp_heap = <<>>
    /\ srp_objects = <<>>
    /\ srp_added = <<>>
    /\ srp_call = "init"
    /\ srp_arg = 0
    /\ srp_ret = <<>>
    /\ srp_text = ""
    /\ srp_out = <<>>
    /\ script = "none"
    /\ pc = "done"
    /\ env = NoLocals
    /\ out = <<>>

\* Creating repositories and managers of SRP.py, adding products to them,
\* displaying them and processing purchases.
SpecSRP == SrpInit /\ [][SrpNext]_vars

----------------------------------------------------------------------------
(* Properties of the main() drivers *)

\* The names of the products of a list, in order.
Names(ps) == [i \in DOMAIN ps |-> ps[i].name]

\* The last n entries of the output.
LastPrinted(n) == SubSeq(out, Len(out) - n + 1, Len(out))

\* C1: in the OCP demo, ProductFilter.filter on the four-item list (Apple,
\* Tree, House, Chair) with ColorSpecification(RED) returns exactly the two red
\* items, Apple and Chair, in that order, and the demo prints them so.
C1_DemoRedFilter ==
    script = "OCP" =>
        /\ pc \in {"240.next", "241"} =>
              /\ Names(env.products) = <<"Apple", "Tree", "House", "Chair">>
              /\ env.red_spec = ColorSpecification("RED")
              /\ env.iter = <<env.products[1], env.products[4]>>
              /\ Names(env.iter) = <<"Apple", "Chair">>
        /\ pc = "243" =>
              LastPrinted(3) = <<"Products with RED color:", "- Apple", "- Chair">>

\* C1 witness: the demo has filtered by red_spec and printed both names.
C1_Witness ==
    /\ script = "OCP"
    /\ pc = "243"
    /\ Len(env.iter) = 2
    /\ env.good_filter = "ProductFilter"

\* The for statement a position of main() lies in ("" outside every loop).
LoopOf(s, at) ==
    CASE s = "OCP" /\ at \in {"225.next", "226"} -> "225"
      [] s = "OCP" /\ at \in {"228.next", "229"} -> "228"
      [] s = "OCP" /\ at \in {"231.next", "232"} -> "231"
      [] s = "OCP" /\ at \in {"240.next", "241"} -> "240"
      [] s = "OCP" /\ at \in {"245.next", "246"} -> "245"
      [] s = "OCP" /\ at \in {"250.next", "251"} -> "250"
      [] s = "OCP" /\ at \in {"255.next", "256"} -> "255"
      [] s = "OCP" /\ at \in {"270.next", "271"} -> "270"
      [] s = "OCP_2" /\ at \in {"118.next", "119", "120", "121"} -> "118"
      [] s = "OCP_2" /\ at \in {"131.next", "132"} -> "131"
      [] OTHER -> ""

\* The list that for statement iterates over.
LoopList(s, loop, e) ==
    CASE s = "OCP" -> e.iter
      [] s = "OCP_2" /\ loop = "118" -> e.customers
      [] s = "OCP_2" /\ loop = "131" -> e.customers_with_discount

\* C3: every main() terminates after printing its output: it reaches its end
\* and never ends in an uncaught exception; while a loop runs, the list it
\* iterates over keeps its length; and the ISP demo's two NotImplementedError
\* are caught and reported.
C3_MainTerminates ==
    /\ <>(pc = "done")
    /\ [](pc # "crashed")
    /\ [][ (LoopOf(script, pc) # "" /\ LoopOf(script, pc') = LoopOf(script, pc)) =>
              Len(LoopList(script, LoopOf(script, pc), env')) =
                  Len(LoopList(script, LoopOf(script, pc), env))
         ]_vars
    /\ []((script = "ISP" /\ pc = "done") =>
            /\ out[4] = "Oshibka: UI does not handle payments"
            /\ out[6] = "Oshibka: Payment system does not display orders")

\* C3 witness: the ISP demo ran to its last statement after catching the
\* second NotImplementedError.
C3_Witness ==
    /\ script = "ISP"
    /\ pc = "done"
    /\ env.e.type = "NotImplementedError"
    /\ env.order.is_paid
    /\ Len(out) = 9

----------------------------------------------------------------------------
(* Properties of OCP.py *)

\* The number of positions of list s holding x.
Count(s, x) == Cardinality({ i \in DOMAIN s : s[i] = x })

\* sub is s with some positions struck out, the rest kept in order.
IsSubsequence(sub, s) ==
    \E f \in [DOMAIN sub -> DOMAIN s] :
        /\ \A i \in DOMAIN sub : sub[i] = s[f[i]]
        /\ \A i, j \in DOMAIN sub : i < j => f[i] < f[j]

\* C4: ProductFilter.filter returns exactly the products of the list that
\* satisfy the specification, each as often as it occurs in the list, in the
\* list's order: the result is an order-preserving subsequence of the input
\* and omits no satisfying product.
C4_FilterSelects ==
    ocp_call = "filter" =>
        /\ \A i \in DOMAIN filtered : is_satisfied(specification, filtered[i])
        /\ \A p \in Catalog :
              Count(filtered, p) =
                  IF is_satisfied(specification, p) THEN Count(products, p) ELSE 0
        /\ IsSubsequence(filtered, products)

\* C4 witness: a three-product list with a repeated match and a non-match
\* between the matches has been filtered down to the two matches.
C4_Witness ==
    /\ ocp_call = "filter"
    /\ Len(products) = 3
    /\ Len(filtered) = 2
    /\ products[1] # products[3]
    /\ filtered = <<products[1], products[3]>>

\* C5: AndSpecification(s1..sn) with n >= 1 is satisfied by a product exactly
\* when every one of s1..sn is satisfied by it; the answer is_satisfied
\* returned for the item it was called on is that conjunction.
C5_AndIsConjunction ==
    (specification.kind = "And" /\ Len(specification.args) >= 1) =>
        /\ \A p \in AllProducts :
              is_satisfied(specification, p) <=>
                  \A i \in DOMAIN specification.args :
                      is_satisfied(specification.args[i], p)
        /\ ocp_call = "is_satisfied" =>
              (satisfied <=>
                  \A i \in DOMAIN specification.args :
                      is_satisfied(specification.args[i], item))

\* C5 witness: an AndSpecification of two different specifications was
\* evaluated on a product and answered true.
C5_Witness ==
    /\ specification.kind = "And"
    /\ Len(specification.args) = 2
    /\ specification.args[1] # specification.args[2]
    /\ ocp_call = "is_satisfied"
    /\ satisfied

\* C6: OrSpecification(s1..sn) with n >= 1 is satisfied by a product exactly
\* when at least one of s1..sn is satisfied by it; the answer is_satisfied
\* returned for the item it was called on is that disjunction.
C6_OrIsDisjunction ==
    (specification.kind = "Or" /\ Len(specification.args) >= 1) =>
        /\ \A p \in AllProducts :
              is_satisfied(specification, p) <=>
                  \E i \in DOMAIN specification.args :
                      is_satisfied(specification.args[i], p)
        /\ ocp_call = "is_satisfied" =>
              (satisfied <=>
                  \E i \in DOMAIN specification.args :
                      is_satisfied(specification.args[i], item))

\* C6 witness: an OrSpecification of two specifications answered true for a
\* product that its first argument rejects.
C6_Witness ==
    /\ specification.kind = "Or"
    /\ Len(specification.args) = 2
    /\ ocp_call = "is_satisfied"
    /\ satisfied
    /\ ~is_satisfied(specification.args[1], item)

\* C7: NotSpecification(s) is satisfied by a product exactly when s is not,
\* ~s is such a negation of s, and so ~~s is satisfied by exactly the products
\* that satisfy s.
C7_NotIsNegation ==
    [][ /\ specification'.kind = "Not" =>
              /\ \A p \in AllProducts :
                    is_satisfied(specification', p) <=>
                        ~is_satisfied(specification'.spec, p)
              /\ ocp_call' = "is_satisfied" =>
                    (satisfied' <=> ~is_satisfied(specification'.spec, item'))
        /\ ocp_call' = "__invert__" =>
              \A p \in AllProducts :
                  is_satisfied(specification', p) <=> ~is_satisfied(specification, p)
        /\ (ocp_call' = "__invert__" /\ ocp_call = "__invert__") =>
              \A p \in AllProducts :
                  is_satisfied(specification', p) <=>
                      is_satisfied(specification.spec, p)
      ]_vars

\* C7 witness: ~~s was built by two successive inversions of a colour test s.
C7_Witness ==
    /\ ocp_call = "__invert__"
    /\ specification.kind = "Not"
    /\ specification.spec.kind = "Not"
    /\ specification.spec.spec.kind = "Color"

\* (RED & LARGE) | (BLUE & SMALL), built with the overloaded operators.
ComplexCondition ==
    Specification_or(
        Specification_and(ColorSpecification("RED"), SizeSpecification("LARGE")),
        Specification_and(ColorSpecification("BLUE"), SizeSpecification("SMALL")))

\* C8: a & b is satisfied exactly when both a and b are, a | b exactly when a
\* or b is, ~a exactly when a is not; and (RED & LARGE) | (BLUE & SMALL) is
\* satisfied exactly by the products that are red and large or blue and small.
C8_OperatorsAreBoolean ==
    [][ /\ ocp_call' = "__and__" =>
              \A p \in AllProducts :
                  is_satisfied(specification', p) <=>
                      (is_satisfied(specification, p) /\ is_satisfied(operand', p))
        /\ ocp_call' = "__or__" =>
              \A p \in AllProducts :
                  is_satisfied(specification', p) <=>
                      (is_satisfied(specification, p) \/ is_satisfied(operand', p))
        /\ ocp_call' = "__invert__" =>
              \A p \in AllProducts :
                  is_satisfied(specification', p) <=> ~is_satisfied(specification, p)
        /\ specification' = ComplexCondition =>
              \A p \in AllProducts :
                  is_satisfied(specification', p) <=>
                      \/ (p.color = "RED" /\ p.size = "LARGE")
                      \/ (p.color = "BLUE" /\ p.size = "SMALL")
      ]_vars

\* C8 witness: the complex condition was built with | from (RED & LARGE) and
\* evaluated true on the blue and small catalog product.
C8_Witness ==
    /\ specification = ComplexCondition
    /\ operand =
          Specification_and(ColorSpecification("BLUE"), SizeSpecification("SMALL"))
    /\ ocp_call = "is_satisfied"
    /\ item.color = "BLUE"
    /\ item.size = "SMALL"
    /\ satisfied

----------------------------------------------------------------------------
(* Properties of ISP.py *)

\* The methods a class of the wide interface is forced to implement but cannot
\* support.
UnsupportedCalls ==
    { "UIDisplayBad.process_payment", "UIDisplayBad.send_notification",
      "PaymentSystemBad.display_order", "PaymentSystemBad.send_notification" }

\* C2: every call of a method a "bad" class cannot support raises
\* NotImplementedError, whatever the order, and leaves the order's product
\* list and is_paid flag as they were.
C2_UnsupportedRaises ==
    [][ isp_call' \in UnsupportedCalls =>
            /\ isp_exc'.type = "NotImplementedError"
            /\ order'.products = order.products
            /\ order'.is_paid = order.is_paid
      ]_vars

\* C2 witness: PaymentSystemBad.send_notification has just raised on a paid
\* order of three products.
C2_Witness ==
    /\ isp_call = "PaymentSystemBad.send_notification"
    /\ isp_exc.type = "NotImplementedError"
    /\ order.is_paid
    /\ Len(order.products) = 3

----------------------------------------------------------------------------
(* Properties of OCP_2.py *)

\* The percentage each strategy's docstring promises.
PromisedPercent(strategy) ==
    CASE strategy = "RegularDiscount" -> 5
      [] strategy = "PremiumDiscount" -> 15
      [] strategy = "CorporateDiscount" -> 20
      [] strategy = "VipDiscount" -> 25

\* C9: each strategy's discount is its fixed percentage of the purchase amount
\* (Regular 5, Premium 15, Corporate 20, Vip 25), and of the demo's $100 the
\* discounts are $5, $15, $20 and $25.
C9_FixedPercentage ==
    /\ disc_call = "get_discount" =>
          100 * disc_ret =
              PromisedPercent(customers[disc_arg].discount_strategy)
                  * customers[disc_arg].purchase_amount
    /\ \A strategy \in DiscountStrategies, amount \in Amounts :
          100 * calculate_discount(strategy, amount) =
              PromisedPercent(strategy) * amount
    /\ calculate_discount("RegularDiscount", 10000) = 500
    /\ calculate_discount("PremiumDiscount", 10000) = 1500
    /\ calculate_discount("CorporateDiscount", 10000) = 2000
    /\ calculate_discount("VipDiscount", 10000) = 2500

\* C9 witness: a premium customer who bought for $100 was given $15.
C9_Witness ==
    /\ disc_call = "get_discount"
    /\ customers[disc_arg].discount_strategy = "PremiumDiscount"
    /\ customers[disc_arg].purchase_amount = 10000
    /\ disc_ret = 1500

\* C10: process_discounts prints exactly one line per customer, in list
\* order, each showing that customer's own strategy applied to that customer's
\* own current purchase amount, and it changes no customer.
C10_ProcessDiscounts ==
    [][ disc_call' = "process_discounts" =>
            /\ Len(disc_out') = Len(customers)
            /\ \A i \in DOMAIN customers :
                  disc_out'[i] =
                      DiscountLine(
                          customers[i].name,
                          calculate_discount(customers[i].discount_strategy,
                                             customers[i].purchase_amount))
            /\ customers' = customers
      ]_vars

\* C10 witness: two customers with different strategies and different
\* purchase amounts were processed and two lines were printed.
C10_Witness ==
    /\ disc_call = "process_discounts"
    /\ Len(customers) = 2
    /\ Len(disc_out) = 2
    /\ customers[1].discount_strategy = "VipDiscount"
    /\ customers[2].discount_strategy = "RegularDiscount"
    /\ customers[1].purchase_amount = 3300
    /\ customers[2].purchase_amount = 10000

----------------------------------------------------------------------------
(* Properties of DIP.py *)

\* The line a notification service prints for an order of n products.
SentLine(service, n) ==
    (IF service = "SmsService" THEN "SMS" ELSE "Email")
        \o " sent: Order with " \o ToString(n) \o " items has been processed!"

\* C11: DIP's OrderProcessor.process_order first prints "Processing order
\* with N items...", then calls send_notification exactly once, on the service
\* injected at construction and no other, with the same order; N in both
\* messages is the number of products of the order.
C11_ProcessOrderNotifiesInjected ==
    [][ dip_call' = "OrderProcessor.process_order" =>
            /\ dip_out'[1] =
                  "Processing order with " \o ToString(Len(dip_order.products))
                      \o " items..."
            /\ Len(dip_calls') = 1
            /\ dip_calls'[1].service = dip_service
            /\ dip_calls'[1].method = "send_notification"
            /\ dip_calls'[1].order = dip_order
            /\ dip_calls'[1].after = 1
            /\ dip_out' = <<dip_out'[1], SentLine(dip_service, Len(dip_order.products))>>
            /\ dip_order' = dip_order
            /\ dip_service' = dip_service
      ]_vars

\* C11 witness: a processor built with SmsService has processed an order of
\* two products.
C11_Witness ==
    /\ dip_call = "OrderProcessor.process_order"
    /\ dip_service = "SmsService"
    /\ Len(dip_order.products) = 2
    /\ Len(dip_out) = 2
    /\ Len(dip_calls) = 1

----------------------------------------------------------------------------
(* Properties of SRP.py *)

\* The products instance i holds, in order.
Stored(i) == srp_heap[srp_objects[i].products]

\* C12: a ProductRepository holds exactly the products added to it, in the
\* order they were added: get_products returns that sequence (as long as the
\* number of add_product calls), and get_products leaves what is stored as it
\* was.
C12_RepositoryStores ==
    /\ [](\A i \in InstancesOf("ProductRepository") : Stored(i) = srp_added[i])
    /\ [][ srp_call' = "ProductRepository.get_products" =>
              /\ srp_ret' = srp_added[srp_arg']
              /\ Len(srp_ret') = Len(srp_added[srp_arg'])
              /\ srp_heap' = srp_heap
              /\ srp_objects' = srp_objects
         ]_vars

\* C12 witness: get_products returned two different products added to a
\* repository one after the other.
C12_Witness ==
    /\ srp_call = "ProductRepository.get_products"
    /\ Len(srp_ret) = 2
    /\ srp_ret[1] # srp_ret[2]
    /\ srp_ret = srp_added[srp_arg]

\* C14: instances share no list: a new ProductRepository or ProductManagerBad
\* starts with an empty product list of its own, and creating an instance or
\* calling add_product on one leaves the products of every other instance
\* unchanged.
C14_InstancesIsolated ==
    [][ /\ srp_call' \in {"ProductRepository.add_product",
                           "ProductManagerBad.add_product"} =>
              \A j \in DOMAIN srp_objects \ {srp_arg'} :
                  srp_heap'[srp_objects'[j].products] = Stored(j)
        /\ Len(srp_objects') > Len(srp_objects) =>
              /\ srp_heap'[srp_objects'[srp_arg'].products] = <<>>
              /\ \A j \in DOMAIN srp_objects :
                    /\ srp_objects'[j] = srp_objects[j]
                    /\ srp_heap'[srp_objects'[j].products] = Stored(j)
                    /\ srp_objects'[j].products # srp_objects'[srp_arg'].products
      ]_vars

\* C14 witness: a product was added to a manager while a repository created
\* before it holds a product of its own and a third instance holds none.
C14_Witness ==
    /\ srp_call = "ProductManagerBad.add_product"
    /\ Len(srp_objects) = 3
    /\ srp_arg = 2
    /\ srp_objects[1].class = "ProductRepository"
    /\ Len(Stored(1)) = 1
    /\ Len(Stored(2)) = 2
    /\ Len(Stored(3)) = 0

\* C20: a ProductManagerBad and a ProductRepository given the same products in
\* the same order behave alike: process_purchase(name) of the manager and of
\* a PurchaseProcessor on the repository print the same three outputs
\* ("Processing purchase...", the HTML list, the notification for name), and
\* display_products returns the string ProductDisplay.display returns.
C20_PurchaseFlowsAgree ==
    \A i \in InstancesOf("ProductManagerBad"), j \in InstancesOf("ProductRepository") :
        srp_added[i] = srp_added[j] =>
            /\ ProductManagerBad_display_products(Deref(srp_objects[i])) =
                  ProductDisplay_display(
                      ProductRepository_get_products(Deref(srp_objects[j])))
            /\ \A name \in PurchaseNames :
                  /\ ProductManagerBad_process_purchase(Deref(srp_objects[i]), name) =
                        PurchaseProcessor_process_purchase(Deref(srp_objects[j]), name)
                  /\ PurchaseProcessor_process_purchase(Deref(srp_objects[j]), name) =
                        << "Processing purchase...",
                           "<ul>" \o HtmlItems(srp_added[j]) \o "</ul>",
                           "Email sent: You purchased " \o name
                               \o "! Thank you for shopping!" >>
            /\ (srp_call = "PurchaseProcessor.process_purchase" /\ srp_arg = j) =>
                  \E name \in PurchaseNames :
                      srp_out =
                          ProductManagerBad_process_purchase(Deref(srp_objects[i]), name)
            /\ (srp_call = "ProductManagerBad.process_purchase" /\ srp_arg = i) =>
                  \E name \in PurchaseNames :
                      srp_out =
                          PurchaseProcessor_process_purchase(Deref(srp_objects[j]), name)
            /\ (srp_call = "ProductDisplay.display" /\ srp_arg = j) =>
                  srp_text = ProductManagerBad_display_products(Deref(srp_objects[i]))
            /\ (srp_call = "ProductManagerBad.display_products" /\ srp_arg = i) =>
                  srp_text =
                      ProductDisplay_display(
                          ProductRepository_get_products(Deref(srp_objects[j])))

\* C20 witness: a PurchaseProcessor processed a purchase on a repository of
\* two different products while a manager holds the same two in the same
\* order.
C20_Witness ==
    /\ srp_call = "PurchaseProcessor.process_purchase"
    /\ Len(srp_out) = 3
    /\ Len(srp_added[srp_arg]) = 2
    /\ srp_added[srp_arg][1] # srp_added[srp_arg][2]
    /\ \E i \in InstancesOf("ProductManagerBad") :
          /\ srp_added[i] = srp_added[srp_arg]
          /\ Stored(i) = Stored(srp_arg)

----------------------------------------------------------------------------
(* Properties of ISP.py's OrderProcessor and of is_paid *)

\* The positions of the calls of a method in a sequence of calls.
CallsOf(calls, method) == { k \in DOMAIN calls : calls[k].method = method }

\* C13: OrderProcessor.process_order works in the fixed order display,
\* payment, notification: display_order is called first and its result
\* printed, process_payment is called next, and send_notification is called,
\* once and after the payment, exactly when process_payment returned true;
\* when it returned false no notification is sent.
C13_ProcessOrderSteps ==
    isp_call = "OrderProcessor.process_order" =>
        /\ Len(isp_calls) >= 1
        /\ isp_calls[1].method = "display_order"
        /\ isp_calls[1].outcome = "raised" => Len(isp_calls) = 1
        /\ isp_calls[1].outcome # "raised" =>
              /\ Len(isp_calls) \in {3, 4}
              /\ isp_calls[2].method = "print"
              /\ isp_out[1] = OrderText(order)
              /\ isp_calls[3].method = "process_payment"
              /\ CallsOf(isp_calls, "send_notification") =
                    IF isp_calls[3].outcome = "true" THEN {4} ELSE {}
              /\ isp_calls[3].outcome = "false" =>
                    /\ Len(isp_calls) = 3
                    /\ isp_out = <<OrderText(order)>>
                    /\ isp_exc = NoException
        /\ CallsOf(isp_calls, "display_order") = {1}
        /\ CallsOf(isp_calls, "process_payment") \subseteq {3}

\* C13 witness: the payment returned true on an order of two products and the
\* notification system was then called, fourth and last.
C13_Witness ==
    /\ isp_call = "OrderProcessor.process_order"
    /\ Len(order.products) = 2
    /\ Len(isp_calls) = 4
    /\ isp_calls[1].target = "UIDisplay"
    /\ isp_calls[3].outcome = "true"
    /\ isp_calls[4].target = "NotificationSystem"
    /\ isp_out = <<OrderText(order), EmailSentLine(order)>>

\* The classes whose process_payment marks the order paid.
Payers == {"PaymentSystem", "PaymentSystemBad"}

\* C15: an Order starts unpaid; is_paid is changed only by
\* PaymentSystem.process_payment and PaymentSystemBad.process_payment (called
\* directly or by process_order); and once is_paid is true no display,
\* payment, notification or process_order operation makes it false again.
C15_IsPaidMonotonic ==
    /\ [](\A ps \in OrderLists : ~Order(ps).is_paid)
    /\ [](isp_call = "init" => ~order.is_paid)
    /\ [][ /\ order.is_paid => order'.is_paid
           /\ order'.is_paid # order.is_paid =>
                 \/ isp_call' \in { "PaymentSystem.process_payment",
                                     "PaymentSystemBad.process_payment" }
                 \/ /\ isp_call' = "OrderProcessor.process_order"
                    /\ \E k \in CallsOf(isp_calls', "process_payment") :
                          /\ isp_calls'[k].target \in Payers
                          /\ isp_calls'[k].outcome = "true"
         ]_vars

\* C15 witness: an order already paid was handed to an OrderProcessor whose
\* payment declined, and it is still paid.
C15_Witness ==
    /\ isp_call = "OrderProcessor.process_order"
    /\ Len(isp_calls) = 3
    /\ isp_calls[3].target = "DecliningPayment"
    /\ isp_calls[3].paid
    /\ order.is_paid

\* C16: PaymentSystem.process_payment always returns true and leaves the order
\* paid, and an order already paid is left exactly as it was; so every
\* process_order that reaches PaymentSystem makes exactly one
\* send_notification call, also for an order paid before, and with
\* NotificationSystem exactly one notification line is printed.
C16_PaymentSystemIdempotent ==
    [][ /\ isp_call' = "PaymentSystem.process_payment" =>
              /\ isp_exc' = NoException
              /\ isp_ret' = ReturnBool(TRUE)
              /\ order'.is_paid
              /\ order'.products = order.products
              /\ order.is_paid => order' = order
        /\ ( /\ isp_call' = "OrderProcessor.process_order"
             /\ \E k \in CallsOf(isp_calls', "process_payment") :
                   isp_calls'[k].target = "PaymentSystem" ) =>
              /\ CallsOf(isp_calls', "send_notification") = {4}
              /\ order'.is_paid
              /\ isp_calls'[4].target = "NotificationSystem" =>
                    isp_out' = <<OrderText(order), EmailSentLine(order)>>
      ]_vars

\* C16 witness: an order paid beforehand went through an OrderProcessor wired
\* with PaymentSystem and NotificationSystem, and one notification was sent.
C16_Witness ==
    /\ isp_call = "OrderProcessor.process_order"
    /\ Len(isp_calls) = 4
    /\ isp_calls[3].target = "PaymentSystem"
    /\ isp_calls[3].paid
    /\ isp_calls[4].target = "NotificationSystem"
    /\ Len(isp_out) = 2
    /\ Len(order.products) >= 1

----------------------------------------------------------------------------
(* Properties of ISP.py's main() *)

\* The positions of the output holding a given line.
PrintedAt(text) == { i \in DOMAIN out : out[i] = text }

\* C17: in ISP.py's main() both NotImplementedError (from
\* ui_bad.process_payment and payment_bad.display_order) are caught and
\* reported and main() goes on after each; payment_bad has paid the order
\* before the OrderProcessor of the narrow classes handles it; and at the end
\* of main() the order is paid and exactly one notification has been sent.
C17_IspMainErrorsCaught ==
    script = "ISP" =>
        /\ pc # "crashed"
        /\ pc = "190" =>
              /\ env.raised = NotImplementedError("UI does not handle payments")
              /\ ~env.order.is_paid
        /\ pc = "193" =>
              LastPrinted(1) = <<"Oshibka: UI does not handle payments">>
        /\ pc = "194" => ~env.order.is_paid
        /\ pc = "197" =>
              env.raised =
                  NotImplementedError("Payment system does not display orders")
        /\ pc = "201" =>
              LastPrinted(1) = <<"Oshibka: Payment system does not display orders">>
        /\ pc \in {"196", "197", "198", "201", "202", "203", "204", "205", "206"} =>
              /\ env.order.is_paid
              /\ PrintedAt(EmailSentLine(env.order)) = {}
        /\ pc = "done" =>
              /\ env.order.is_paid
              /\ Cardinality(PrintedAt(EmailSentLine(env.order))) = 1
              /\ Cardinality(PrintedAt("Oshibka: UI does not handle payments")) = 1
              /\ Cardinality(
                    PrintedAt("Oshibka: Payment system does not display orders")) = 1
              /\ LastPrinted(1) = <<EmailSentLine(env.order)>>

\* C17 witness: main() has ended, both errors reported, the order of two
\* products paid and the one notification printed last.
C17_Witness ==
    /\ script = "ISP"
    /\ pc = "done"
    /\ Len(env.order.products) = 2
    /\ env.order.is_paid
    /\ out[Len(out)] = "Email sent: Order with 2 items has been processed!"
    /\ PrintedAt("Oshibka: UI does not handle payments") # {}

----------------------------------------------------------------------------
(* ProductFilter_2 against ProductFilter *)

\* C18: the methods of ProductFilter_2 return the list ProductFilter.filter
\* returns for the matching specification, same elements in the same order:
\* filter_by_color(c) as ColorSpecification(c), filter_by_size(s) as
\* SizeSpecification(s), filter_by_material(m) as MaterialSpecification(m),
\* filter_by_color_and_size(c, s) as
\* AndSpecification(ColorSpecification(c), SizeSpecification(s)).
C18_FiltersAgree ==
    /\ \A c \in Color :
          ProductFilter_2_filter_by_color(products, c) =
              ProductFilter_filter(products, ColorSpecification(c))
    /\ \A z \in Size :
          ProductFilter_2_filter_by_size(products, z) =
              ProductFilter_filter(products, SizeSpecification(z))
    /\ \A m \in Material :
          ProductFilter_2_filter_by_material(products, m) =
              ProductFilter_filter(products, MaterialSpecification(m))
    /\ \A c \in Color, z \in Size :
          ProductFilter_2_filter_by_color_and_size(products, c, z) =
              ProductFilter_filter(
                  products,
                  AndSpecification(<<ColorSpecification(c), SizeSpecification(z)>>))
    /\ ocp_call = "filter_by_color" =>
          filtered = ProductFilter_filter(products, ColorSpecification(bad_args.color))
    /\ ocp_call = "filter_by_size" =>
          filtered = ProductFilter_filter(products, SizeSpecification(bad_args.size))
    /\ ocp_call = "filter_by_material" =>
          filtered =
              ProductFilter_filter(products, MaterialSpecification(bad_args.material))
    /\ ocp_call = "filter_by_color_and_size" =>
          filtered =
              ProductFilter_filter(
                  products,
                  AndSpecification(<<ColorSpecification(bad_args.color),
                                     SizeSpecification(bad_args.size)>>))

\* C18 witness: filter_by_color_and_size kept one of three products, the
\* others matching the color only and the size only.
C18_Witness ==
    /\ ocp_call = "filter_by_color_and_size"
    /\ Len(products) = 3
    /\ Len(filtered) = 1
    /\ \E i, j \in DOMAIN products :
          /\ products[i].color = bad_args.color
          /\ products[i].size # bad_args.size
          /\ products[j].color # bad_args.color
          /\ products[j].size = bad_args.size

----------------------------------------------------------------------------
(* DiscountCalculatorBad against the strategies *)

\* The strategy that takes the place of a customer type.
StrategyOf(customer_type) ==
    CASE customer_type = "REGULAR" -> "RegularDiscount"
      [] customer_type = "PREMIUM" -> "PremiumDiscount"
      [] customer_type = "CORPORATE" -> "CorporateDiscount"

\* The CustomerWithDiscount that corresponds to a Customer: same name, the
\* strategy of its type, the same purchase amount set.
WithDiscount(customer) ==
    CustomerWithDiscount_set_purchase_amount(
        CustomerWithDiscount(customer.name, StrategyOf(customer.customer_type)),
        customer.purchase_amount)

\* C19: for every purchase amount, DiscountCalculatorBad.calculate_discount on
\* a REGULAR, PREMIUM or CORPORATE customer returns what
\* CustomerWithDiscount.get_discount returns with RegularDiscount,
\* PremiumDiscount or CorporateDiscount and the same purchase amount.
C19_DiscountsAgree ==
    /\ \A name \in CustomerNames, customer_type \in CustomerType, amount \in Amounts :
          LET customer ==
                  Customer_set_purchase_amount(Customer(name, customer_type), amount)
          IN  DiscountCalculatorBad_calculate_discount(customer) =
                  CustomerWithDiscount_get_discount(WithDiscount(customer))
    /\ disc_call = "calculate_discount" =>
          disc_ret = CustomerWithDiscount_get_discount(WithDiscount(bad_customer))
    /\ disc_call = "get_discount" =>
          \A customer_type \in CustomerType :
              StrategyOf(customer_type) = customers[disc_arg].discount_strategy =>
                  disc_ret =
                      DiscountCalculatorBad_calculate_discount(
                          Customer_set_purchase_amount(
                              Customer(customers[disc_arg].name, customer_type),
                              customers[disc_arg].purchase_amount))

\* C19 witness: DiscountCalculatorBad gave a corporate customer who bought for
\* $33 a discount of $6.60.
C19_Witness ==
    /\ disc_call = "calculate_discount"
    /\ bad_customer.customer_type = "CORPORATE"
    /\ bad_customer.purchase_amount = 3300
    /\ disc_ret = 660

----------------------------------------------------------------------------
(* C21: filtering and evaluating leave their arguments alone *)

FilterCalls ==
    { "filter", "filter_by_color", "filter_by_size",
      "filter_by_color_and_size", "filter_by_material" }

\* C21: ProductFilter.filter and every ProductFilter_2 filter method leave
\* the product list and the attributes of its products as they were;
\* evaluating is_satisfied on a specification, simple or composite, changes
\* neither the product evaluated nor the specification; and filtering the
\* list again with the same specification gives the same result, both
\* against the result of the previous filter call and against a further
\* filter of the list as the call left it.
C21_FilterFrame ==
    [][ /\ (ocp_call' \in FilterCalls) => (products' = products)
        /\ (ocp_call' = "is_satisfied") =>
               /\ products' = products
               /\ specification' = specification
               /\ \E i \in DOMAIN products :
                      item' = products[i] /\ products'[i] = products[i]
        /\ (ocp_call' = "filter") =>
               /\ ProductFilter_filter(products', specification') = filtered'
               /\ (specification' = specification) => (filtered' = filtered)
      ]_vars

\* is_satisfied has been evaluated to False with a composite specification
\* on a product of a three-product list that the filter, called with that
\* specification, had reduced to one product.
C21_Witness ==
    /\ ocp_call = "is_satisfied"
    /\ specification.kind \in {"And", "Or", "Not"}
    /\ Len(products) = 3
    /\ Len(filtered) = 1
    /\ item # NoProduct
    /\ ~satisfied
    /\ filtered = ProductFilter_filter(products, specification)

====
